---- MODULE Spec2Model ----
(***************************************************************************)
(* A model of the FLWINS2 portal server: the intake store and its upsert   *)
(* (config/database.js), the intake submission flow, the profile           *)
(* aggregation and the authentication status routes (app.js), and the      *)
(* account provisioning helpers (config/msgraph-account.js and the EFSMOD  *)
(* invitation helper).                                                     *)
(*                                                                         *)
(* JavaScript strings are sequences of one-character strings; null and     *)
(* undefined are the value Null.                                           *)
(***************************************************************************)
EXTENDS Integers, Sequences, FiniteSets, TLC

(***************************************************************************)
(* Bounds of the model.                                                    *)
(***************************************************************************)
\* Number of concurrent callers (each performs one call: an upsertIntakeForm
\* call, a GET /api/profile request, a GET /api/auth/... request).
NumProcs == 2
\* Number of POST /api/intake requests (served concurrently).
NumReqs == 1

Procs == 1..NumProcs

(***************************************************************************)
(* Values.                                                                 *)
(***************************************************************************)
\* null / undefined: a sequence no string equals (its element is not a character).
Null == <<"NULL">>
Empty == <<>>

\* JavaScript truthiness of a string-or-null value.
Truthy(v) == v # Null /\ v # Empty

\* a || b
Or(a, b) == IF Truthy(a) THEN a ELSE b

(***************************************************************************)
(* The intake store: table dbo.IntakeForms (config/database.js).           *)
(***************************************************************************)
\* User ids (strings, as every value of the platform's principal).
U1 == <<"u", "1">>
U2 == <<"u", "2">>
Users == {U1, U2}

FormFields ==
    {"email", "firstName", "lastName", "department", "jobTitle", "officeLocation",
     "workPhone", "address", "city", "state", "zipCode", "phone"}

\* The form object handed to upsertIntakeForm: userId and the twelve columns' values.
MkForm(u, email, first, last, dept, city) ==
    [userId |-> u, email |-> email, firstName |-> first, lastName |-> last,
     department |-> dept, jobTitle |-> Null, officeLocation |-> Null,
     workPhone |-> Null, address |-> Null, city |-> city, state |-> Null,
     zipCode |-> Null, phone |-> Null]

\* The forms callers submit directly: two complete ones that differ in most
\* columns, and one without an email (the Email column is NOT NULL).
SampleForms(u) ==
    { MkForm(u, <<"a", "@", "x">>, <<"A">>, <<"L">>, Null, <<"T">>),
      MkForm(u, <<"b", "@", "x">>, <<"B">>, Null, <<"D">>, Null),
      MkForm(u, Null, <<"C">>, <<"L">>, Null, Null) }

AllSampleForms == UNION { SampleForms(u) : u \in Users }

\* No form: the value of a caller's form before its call.
NoForm == MkForm(Null, Null, Null, Null, Null, Null)

VARIABLES
    env,          \* process.env: which SQL settings are present
    pool,         \* module-level `pool`: "none" or "connected"; where the pool
                  \* objects are told apart, the index in conns, 0 for null
    conns,        \* the pool objects sql.connect has resolved with, in order
    tableExists,  \* whether dbo.IntakeForms exists
    table,        \* the rows of dbo.IntakeForms
    nextId,       \* NEWSEQUENTIALID(): the next generated Id
    clock,        \* the wall clock
    pc,           \* each caller's position
    form,         \* each caller's form argument
    now,          \* each caller's local `now`
    found,        \* each caller's result of IF EXISTS (SELECT ...)
    committed,    \* per user: the form of the last write statement that completed
    dbWrites      \* per caller: INSERT/UPDATE statements executed on its behalf

dbVars == <<env, pool, conns, tableExists, table, nextId, clock, pc, form, now, found,
            committed, dbWrites>>

VARIABLES
    req,          \* each caller's HTTP request: its inputs, locals and response
    domainMemo    \* module-level `__defaultVerifiedDomain` (msgraph-account.js)

httpVars == <<req, domainMemo>>

\* What a handler that makes no database call leaves alone.
dbVarsButPc == <<env, pool, conns, tableExists, table, nextId, clock, form, now, found,
                 committed, dbWrites>>

vars == <<dbVars, httpVars>>

(***************************************************************************)
(* getPool (config/database.js:19-83).                                     *)
(***************************************************************************)
\* process.env: SQL_SERVER, SQL_DATABASE, SQL_CONNECTION_STRING set or not; the
\* Graph client credentials complete or not; UPN_DOMAIN (Null when unset); the
\* EFSMOD settings complete or not.
MkFullEnv(server, database, connString, graphCreds, upnDomain, efsmodCfg) ==
    [server |-> server, database |-> database, connString |-> connString,
     graphCreds |-> graphCreds, upnDomain |-> upnDomain, efsmodCfg |-> efsmodCfg]

MkEnv(server, database, connString) ==
    MkFullEnv(server, database, connString, FALSE, Null, FALSE)

\* The environments considered: nothing set, a connection string, the managed
\* identity settings, and SQL_SERVER without SQL_DATABASE.
Envs ==
    { MkEnv(FALSE, FALSE, FALSE), MkEnv(FALSE, FALSE, TRUE),
      MkEnv(TRUE, TRUE, FALSE), MkEnv(TRUE, FALSE, FALSE) }

hasManagedIdentityConfig(e) == e.server /\ e.database /\ ~e.connString

\* A getPool that hands out a pool whatever the configuration and the
\* connection attempt say.
GetPoolSwallowsErrors(e, connectOk, tokenOk) == "connected"

\* The result of one getPool call that finds no connected pool: connectOk and
\* tokenOk are whether sql.connect and credential.getToken succeed.
GetPoolOutcome(e, connectOk, tokenOk) ==
    IF ~e.server /\ ~e.connString THEN "config_error"
    ELSE IF e.connString
         THEN (IF connectOk THEN "connected" ELSE "connect_error")
    ELSE IF ~hasManagedIdentityConfig(e) THEN "token_error"
    ELSE IF ~tokenOk THEN "token_error"
    ELSE IF connectOk THEN "connected" ELSE "connect_error"

(***************************************************************************)
(* The statements of upsertIntakeForm's batch (config/database.js:138-194).*)
(***************************************************************************)
RowsOf(t, u) == { r \in t : r.UserId = u }

\* IF EXISTS (SELECT 1 FROM dbo.IntakeForms WHERE UserId = @UserId)
ExistsRow(t, u) == RowsOf(t, u) # {}

\* An UPDATE whose SET list misses Email, FirstName and City.
UpdateRowPartial(r, f, t) ==
    [r EXCEPT !.LastName = f.lastName, !.Department = f.department,
              !.JobTitle = f.jobTitle, !.OfficeLocation = f.officeLocation,
              !.WorkPhone = f.workPhone, !.Address = f.address, !.State = f.state,
              !.ZipCode = f.zipCode, !.Phone = f.phone, !.UpdatedAt = t]

\* UPDATE ... SET <all columns>, UpdatedAt = @UpdatedAt WHERE UserId = @UserId
UpdateRow(r, f, t) ==
    [r EXCEPT !.Email = f.email, !.FirstName = f.firstName, !.LastName = f.lastName,
              !.Department = f.department, !.JobTitle = f.jobTitle,
              !.OfficeLocation = f.officeLocation, !.WorkPhone = f.workPhone,
              !.Address = f.address, !.City = f.city, !.State = f.state,
              !.ZipCode = f.zipCode, !.Phone = f.phone, !.UpdatedAt = t]

\* An UPDATE without its WHERE UserId = @UserId: every row is rewritten.
UpdateEveryRow(tbl, f, t) == { UpdateRow(r, f, t) : r \in tbl }

\* The UPDATE applied to the table: the rows of the form's UserId are rewritten.
UpdateRows(tbl, f, t) ==
    { IF r.UserId = f.userId THEN UpdateRow(r, f, t) ELSE r : r \in tbl }

\* INSERT INTO dbo.IntakeForms (...) VALUES (..., @UpdatedAt, @UpdatedAt)
InsertRow(id, f, t) ==
    [Id |-> id, UserId |-> f.userId, Email |-> f.email, FirstName |-> f.firstName,
     LastName |-> f.lastName, Department |-> f.department, JobTitle |-> f.jobTitle,
     OfficeLocation |-> f.officeLocation, WorkPhone |-> f.workPhone,
     Address |-> f.address, City |-> f.city, State |-> f.state,
     ZipCode |-> f.zipCode, Phone |-> f.phone, CreatedAt |-> t, UpdatedAt |-> t]

\* Email NVARCHAR(256) NOT NULL: a write of a NULL email is rejected.
ViolatesNotNull(f) == f.email = Null

\* The columns of a row as a form, for comparison with what was submitted.
RowForm(r) ==
    [userId |-> r.UserId, email |-> r.Email, firstName |-> r.FirstName,
     lastName |-> r.LastName, department |-> r.Department, jobTitle |-> r.JobTitle,
     officeLocation |-> r.OfficeLocation, workPhone |-> r.WorkPhone,
     address |-> r.Address, city |-> r.City, state |-> r.State,
     zipCode |-> r.ZipCode, phone |-> r.Phone]

(***************************************************************************)
(* upsertIntakeForm as a caller's steps.                                   *)
(***************************************************************************)
\* const sqlPool = await ensureIntakeTable() -> await getPool()
GetPool(p) ==
    /\ pc[p] = "get_pool"
    /\ \E connectOk \in BOOLEAN, tokenOk \in BOOLEAN :
         LET out == IF pool = "connected" THEN "connected"
                    ELSE GetPoolOutcome(env, connectOk, tokenOk)
         IN /\ pool' = IF out = "connected" THEN "connected" ELSE pool
            /\ pc' = [pc EXCEPT ![p] = IF out = "connected" THEN "ensure_check"
                                       ELSE "threw"]
    /\ UNCHANGED <<env, conns, tableExists, table, nextId, clock, form, now, found,
                   committed, dbWrites, httpVars>>

\* After ensureIntakeTable resolves: const now = new Date(). Time may have
\* passed since the last reading (by one tick, or not at all).
ReadClock(p) ==
    \E t \in {clock, clock + 1} :
        /\ clock' = t
        /\ now' = [now EXCEPT ![p] = t]

\* ensureIntakeTable's batch, first statement: IF NOT EXISTS (SELECT * FROM sys.tables ...)
EnsureCheck(p) ==
    /\ pc[p] = "ensure_check"
    /\ \E ok \in BOOLEAN :
         IF ~ok
         THEN /\ pc' = [pc EXCEPT ![p] = "threw"]
              /\ UNCHANGED <<clock, now>>
         ELSE IF tableExists
         THEN /\ pc' = [pc EXCEPT ![p] = "upsert_exists"]
              /\ ReadClock(p)
         ELSE /\ pc' = [pc EXCEPT ![p] = "ensure_create"]
              /\ UNCHANGED <<clock, now>>
    /\ UNCHANGED <<env, conns, pool, tableExists, table, nextId, form, found, committed,
                   dbWrites, httpVars>>

\* ensureIntakeTable's batch, second statement: CREATE TABLE dbo.IntakeForms
\* (fails when another caller created the table in between).
EnsureCreate(p) ==
    /\ pc[p] = "ensure_create"
    /\ IF tableExists
       THEN /\ pc' = [pc EXCEPT ![p] = "threw"]
            /\ UNCHANGED <<tableExists, clock, now>>
       ELSE /\ tableExists' = TRUE
            /\ pc' = [pc EXCEPT ![p] = "upsert_exists"]
            /\ ReadClock(p)
    /\ UNCHANGED <<env, conns, pool, table, nextId, form, found, committed, dbWrites,
                   httpVars>>

\* The upsert batch, first statement: IF EXISTS (SELECT 1 ... WHERE UserId = @UserId)
UpsertExists(p) ==
    /\ pc[p] = "upsert_exists"
    /\ \E ok \in BOOLEAN :
         IF ok
         THEN /\ found' = [found EXCEPT ![p] = ExistsRow(table, form[p].userId)]
              /\ pc' = [pc EXCEPT ![p] = "upsert_write"]
         ELSE /\ pc' = [pc EXCEPT ![p] = "threw"]
              /\ UNCHANGED found
    /\ UNCHANGED <<env, conns, pool, tableExists, table, nextId, clock, form, now,
                   committed, dbWrites, httpVars>>

\* The table after the batch's UPDATE or INSERT by a caller that saw `fnd`.
WriteResult(tbl, fnd, id, f, t) ==
    IF fnd THEN UpdateRows(tbl, f, t) ELSE tbl \cup {InsertRow(id, f, t)}

\* The upsert batch, second statement: the UPDATE or the INSERT.
UpsertWrite(p) ==
    /\ pc[p] = "upsert_write"
    /\ IF ViolatesNotNull(form[p])
       THEN /\ pc' = [pc EXCEPT ![p] = "threw"]
            /\ UNCHANGED <<table, nextId, committed, dbWrites>>
       ELSE /\ table' = WriteResult(table, found[p], nextId, form[p], now[p])
            /\ nextId' = IF found[p] THEN nextId ELSE nextId + 1
            /\ committed' = [committed EXCEPT ![form[p].userId] = form[p]]
            /\ dbWrites' = [dbWrites EXCEPT ![p] = @ + 1]
            /\ pc' = [pc EXCEPT ![p] = "returned"]
    /\ UNCHANGED <<env, conns, pool, tableExists, clock, form, now, found, httpVars>>

\* A direct call upsertIntakeForm(f).
CallUpsert(p, f) ==
    /\ pc[p] = "idle"
    /\ form' = [form EXCEPT ![p] = f]
    /\ pc' = [pc EXCEPT ![p] = "get_pool"]
    /\ UNCHANGED <<env, conns, pool, tableExists, table, nextId, clock, now, found,
                   committed, dbWrites, httpVars>>

UpsertStep(p) ==
    \/ GetPool(p)
    \/ EnsureCheck(p)
    \/ EnsureCreate(p)
    \/ UpsertExists(p)
    \/ UpsertWrite(p)

InUpsert(p) ==
    pc[p] \in {"get_pool", "ensure_check", "ensure_create", "upsert_exists",
               "upsert_write"}

\* The state of a fresh process serving `callers`, each about to make one call.
DbInit(callers, envs) ==
    /\ env \in envs
    /\ pool = "none"
    /\ conns = <<>>
    /\ tableExists \in BOOLEAN
    /\ table = {}
    /\ nextId = 1
    /\ clock = 0
    /\ pc = [p \in callers |-> "idle"]
    /\ form = [p \in callers |-> NoForm]
    /\ now = [p \in callers |-> 0]
    /\ found = [p \in callers |-> FALSE]
    /\ committed = [u \in Users |-> NoForm]
    /\ dbWrites = [p \in callers |-> 0]

(***************************************************************************)
(* Concurrent upserts: calls start at any time and their steps interleave. *)
(***************************************************************************)
\* No HTTP request is involved in a direct call.
NoReq == [status |-> 0]

Init ==
    /\ DbInit(Procs, Envs)
    /\ req = [p \in Procs |-> NoReq]
    /\ domainMemo = Null

Next ==
    \/ \E p \in Procs, f \in AllSampleForms : CallUpsert(p, f)
    \/ \E p \in Procs : UpsertStep(p)

Spec == Init /\ [][Next]_vars

\* The store holds, for every user, at most one row, and a row exactly when a
\* write for the user completed, carrying the values of the last such write.
OneRowWithLastWrite ==
    \A u \in Users :
        /\ Cardinality(RowsOf(table, u)) <= 1
        /\ (committed[u] = NoForm) = (RowsOf(table, u) = {})
        /\ \A r \in RowsOf(table, u) : RowForm(r) = committed[u]

\* C2: when upsertIntakeForm calls for the same userId run concurrently, with
\* their existence checks and writes interleaved in any order, the store ends
\* (all calls finished) with exactly one row for that userId, holding the
\* values of the write that completed last.
C2_ConcurrentLastWriteWins ==
    (\A p \in Procs : ~InUpsert(p)) => OneRowWithLastWrite

(***************************************************************************)
(* Sequential upserts: a call starts only when no other call is running.   *)
(***************************************************************************)
SeqNext ==
    \/ \E p \in Procs, f \in AllSampleForms :
          /\ \A q \in Procs : ~InUpsert(q)
          /\ CallUpsert(p, f)
    \/ \E p \in Procs : UpsertStep(p)

SpecSeq == Init /\ [][SeqNext]_vars

\* C1: after any sequence of sequential upsertIntakeForm calls the store holds
\* at most one row per userId, and that row's columns equal the values of the
\* most recent upsert that completed for that userId.
C1_SequentialUpsertOneRow ==
    \A u \in Users :
        /\ Cardinality(RowsOf(table, u)) <= 1
        /\ committed[u] # NoForm =>
              \E r \in table : r.UserId = u /\ RowForm(r) = committed[u]

\* Two calls with different values for one userId have both returned; the one
\* row was inserted by the first and updated, later, by the second.
C1_Witness ==
    \E p, q \in Procs :
        /\ p # q
        /\ pc[p] = "returned" /\ pc[q] = "returned"
        /\ form[p].userId = form[q].userId
        /\ form[p] # form[q]
        /\ \E r \in table :
              /\ r.UserId = form[q].userId
              /\ r.CreatedAt = now[p] /\ r.UpdatedAt = now[q] /\ now[p] < now[q]
              /\ RowForm(r) = form[q]

(***************************************************************************)
(* Strings.                                                                *)
(***************************************************************************)
RECURSIVE TrimLeft(_)
TrimLeft(s) == IF s # <<>> /\ Head(s) = " " THEN TrimLeft(Tail(s)) ELSE s

RECURSIVE TrimRight(_)
TrimRight(s) ==
    IF s # <<>> /\ s[Len(s)] = " " THEN TrimRight(SubSeq(s, 1, Len(s) - 1)) ELSE s

\* String.prototype.trim
Trim(s) == TrimRight(TrimLeft(s))

\* String.prototype.includes, for a one-character needle
Includes(s, c) == \E i \in 1..Len(s) : s[i] = c

\* String.prototype.slice(0, max)
SliceTo(s, max) == SubSeq(s, 1, IF Len(s) < max THEN Len(s) ELSE max)

(***************************************************************************)
(* The platform's /.auth/me answer and the principal (app.js:98-161).      *)
(***************************************************************************)
EmailClaimTypes ==
    << "http://schemas.xmlsoap.org/ws/2005/05/identity/claims/emailaddress",
       "email", "upn" >>
DisplayNameClaimTypes ==
    << "name", "http://schemas.microsoft.com/identity/claims/displayname",
       "http://schemas.xmlsoap.org/ws/2005/05/identity/claims/name" >>
FirstNameClaimTypes ==
    << "http://schemas.xmlsoap.org/ws/2005/05/identity/claims/givenname", "given_name" >>
LastNameClaimTypes ==
    << "http://schemas.xmlsoap.org/ws/2005/05/identity/claims/surname", "family_name" >>
DepartmentClaimTypes ==
    << "department", "http://schemas.microsoft.com/ws/2008/06/identity/claims/department" >>
JobTitleClaimTypes ==
    << "jobTitle", "http://schemas.microsoft.com/identity/claims/jobtitle" >>
PhoneClaimTypes ==
    << "http://schemas.xmlsoap.org/ws/2005/05/identity/claims/otherphone", "phone_number" >>

Claim(typ, val) == [typ |-> typ, val |-> val]

\* claims.find(c => c.typ === type): the first claim of that type, or NoClaim
NoClaim == Claim("", Null)

RECURSIVE FindClaim(_, _)
FindClaim(claims, type) ==
    IF claims = <<>> THEN NoClaim
    ELSE IF Head(claims).typ = type THEN Head(claims)
    ELSE FindClaim(Tail(claims), type)

\* A getClaimValue that looks at the first listed type only.
ValueOfFirstAlias(claims, claimTypes) ==
    IF claimTypes = <<>> THEN Null
    ELSE IF FindClaim(claims, Head(claimTypes)) # NoClaim
            /\ Truthy(FindClaim(claims, Head(claimTypes)).val)
    THEN FindClaim(claims, Head(claimTypes)).val
    ELSE Null

\* getClaimValue: the value of the first listed type that has a claim with a
\* truthy value; null when none has.
RECURSIVE getClaimValue(_, _)
getClaimValue(claims, claimTypes) ==
    IF claimTypes = <<>> THEN Null
    ELSE LET claim == FindClaim(claims, Head(claimTypes))
         IN IF claim # NoClaim /\ Truthy(claim.val) THEN claim.val
            ELSE getClaimValue(claims, Tail(claimTypes))

\* An entry of the /.auth/me list. NoPrincipal is a null entry.
MkPrincipal(uid, claims, token) ==
    [user_id |-> uid, user_claims |-> claims, access_token |-> token,
     identity_provider |-> "aad"]

NoPrincipal == MkPrincipal(Null, <<>>, Null)

\* The answer of fetch(`.../.auth/me`): the fetch throws, or responds with a
\* success or non-success status; on success the body fails to parse, parses
\* to null, or parses to a list.
MkAuth(fetch, json, list) == [fetch |-> fetch, json |-> json, list |-> list]

AToken == <<"t">>

AnaClaims ==
    << Claim("name", <<"A", "n", "a">>),
       Claim("http://schemas.xmlsoap.org/ws/2005/05/identity/claims/emailaddress",
             <<"c", "@", "x">>) >>

\* An empty e-mail address claim, a upn, and both spellings of the given name.
BobClaims ==
    << Claim("given_name", <<"B">>),
       Claim("upn", <<"u", "@", "x">>),
       Claim("http://schemas.xmlsoap.org/ws/2005/05/identity/claims/emailaddress", Empty),
       Claim("http://schemas.xmlsoap.org/ws/2005/05/identity/claims/givenname",
             <<"R">>),
       Claim("department", <<"D">>) >>

NameOnlyClaims == << Claim("name", <<"N">>) >>

FailedAuths ==
    { MkAuth("throws", "none", <<>>),
      MkAuth("not_ok", "none", <<>>),
      MkAuth("ok", "throws", <<>>),
      MkAuth("ok", "null", <<>>),
      MkAuth("ok", "list", <<>>),
      MkAuth("ok", "list", << NoPrincipal >>),
      MkAuth("ok", "list", << MkPrincipal(Null, AnaClaims, AToken) >>),
      MkAuth("ok", "list", << MkPrincipal(Empty, AnaClaims, AToken) >>) }

\* A check of the principal alone, not of its user_id.
AcceptsMissingUserId(principal) == principal = NoPrincipal

\* !principal || !principal.user_id: the condition of the second 401 answer.
NoUserId(principal) == principal = NoPrincipal \/ ~Truthy(principal.user_id)

\* Resolving the principal as GET /api/profile does (app.js:101-124):
\* "error" when the fetch or the parse throws, "unauthenticated" for the 401
\* answers, "ok" with the principal otherwise.
ResolvePrincipal(a) ==
    IF a.fetch = "throws" THEN [outcome |-> "error", principal |-> NoPrincipal]
    ELSE IF a.fetch = "not_ok"
         THEN [outcome |-> "unauthenticated", principal |-> NoPrincipal]
    ELSE IF a.json = "throws" THEN [outcome |-> "error", principal |-> NoPrincipal]
    ELSE LET principal == IF a.json = "list" /\ Len(a.list) > 0
                          THEN a.list[1] ELSE NoPrincipal
         IN IF NoUserId(principal)
            THEN [outcome |-> "unauthenticated", principal |-> NoPrincipal]
            ELSE [outcome |-> "ok", principal |-> principal]

(***************************************************************************)
(* Account provisioning: createUserFromIntake (config/msgraph-account.js)  *)
(* and inviteExternalUserToEfmod (the EFSMOD helper).                      *)
(***************************************************************************)
\* What the external services answer during one provisioning attempt: the
\* token endpoint, Graph /organization and Graph /users for the creation; the
\* EFSMOD tenant's token endpoint and Graph /invitations for the invitation.
MkExt(token, domain, users, etoken, invite) ==
    [token |-> token, domain |-> domain, users |-> users, etoken |-> etoken,
     invite |-> invite]

AllOk == MkExt("ok", "ok", "ok", "ok", "ok")

\* Every service answering well, and every single failure: a thrown transport
\* error, a non-success status, a success without the expected content.
ExtScenarios ==
    {AllOk}
    \cup { [AllOk EXCEPT !.token = x] : x \in {"throws", "not_ok", "no_token"} }
    \cup { [AllOk EXCEPT !.domain = x] : x \in {"throws", "not_ok", "no_domain"} }
    \cup { [AllOk EXCEPT !.users = x] : x \in {"throws", "not_ok"} }
    \cup { [AllOk EXCEPT !.etoken = x] : x \in {"throws", "not_ok", "no_token"} }
    \cup { [AllOk EXCEPT !.invite = x] : x \in {"throws", "not_ok"} }

\* The variant selected for an intake: same-tenant creation, cross-tenant
\* invitation, or none.
Plans == { {"create"}, {"invite"}, {} }

\* The scenarios of an attempt of `plan`: the services it does not call are
\* of no account.
ExtFor(plan) ==
    { x \in ExtScenarios :
        /\ "create" \notin plan => x.token = "ok" /\ x.domain = "ok" /\ x.users = "ok"
        /\ "invite" \notin plan => x.etoken = "ok" /\ x.invite = "ok" }

\* The name of the tenant's preferred verified domain.
TenantDomain == <<"t", ".", "o">>

\* getAppToken: "ok" or the error it throws.
getAppToken(e, x) ==
    IF ~e.graphCreds THEN "credentials_missing"
    ELSE IF x.token = "throws" THEN "token_transport"
    ELSE IF x.token = "not_ok" THEN "token_status"
    ELSE IF x.token = "no_token" THEN "token_missing"
    ELSE "ok"

\* fetchDefaultVerifiedDomain: the domain or the error, and the memo afterwards.
fetchDefaultVerifiedDomain(memo, x) ==
    IF Truthy(memo) THEN [error |-> "ok", domain |-> memo, memo |-> memo]
    ELSE IF x.domain = "throws"
         THEN [error |-> "domain_transport", domain |-> Null, memo |-> memo]
    ELSE IF x.domain = "not_ok"
         THEN [error |-> "domain_status", domain |-> Null, memo |-> memo]
    ELSE IF x.domain = "no_domain"
         THEN [error |-> "no_verified_domain", domain |-> Null, memo |-> memo]
    ELSE [error |-> "ok", domain |-> TenantDomain, memo |-> TenantDomain]

\* A createUserFromIntake that takes every Graph answer for a success.
CreateIgnoresStatus(e, memo, x) ==
    [kind |-> "created", error |-> "ok", memo |-> memo]

\* createUserFromIntake: {created, initialPassword} or the error it throws,
\* and the memo afterwards.
createUserFromIntake(e, memo, x) ==
    LET tok == getAppToken(e, x)
        dom == IF Truthy(e.upnDomain)
               THEN [error |-> "ok", domain |-> e.upnDomain, memo |-> memo]
               ELSE fetchDefaultVerifiedDomain(memo, x)
    IN IF tok # "ok" THEN [kind |-> "error", error |-> tok, memo |-> memo]
       ELSE IF dom.error # "ok"
            THEN [kind |-> "error", error |-> dom.error, memo |-> dom.memo]
       ELSE IF x.users = "throws"
            THEN [kind |-> "error", error |-> "users_transport", memo |-> dom.memo]
       ELSE IF x.users = "not_ok"
            THEN [kind |-> "error", error |-> "users_status", memo |-> dom.memo]
       ELSE [kind |-> "created", error |-> "ok", memo |-> dom.memo]

\* getAppTokenEfmod: "ok" or the error it throws.
getAppTokenEfmod(e, x) ==
    IF ~e.efsmodCfg THEN "efsmod_config_missing"
    ELSE IF x.etoken = "throws" THEN "token_transport"
    ELSE IF x.etoken = "not_ok" THEN "token_status"
    ELSE IF x.etoken = "no_token" THEN "token_missing"
    ELSE "ok"

\* inviteExternalUserToEfmod: the invitation or the error it throws.
inviteExternalUserToEfmod(e, x, intake) ==
    LET tok == getAppTokenEfmod(e, x)
        email == Trim(Or(intake.email, Empty))
    IN IF tok # "ok" THEN [kind |-> "error", error |-> tok]
       ELSE IF email = Empty \/ ~Includes(email, "@")
            THEN [kind |-> "error", error |-> "invalid_email"]
       ELSE IF x.invite = "throws" THEN [kind |-> "error", error |-> "invite_transport"]
       ELSE IF x.invite = "not_ok" THEN [kind |-> "error", error |-> "invite_status"]
       ELSE [kind |-> "invited", error |-> "ok"]

(***************************************************************************)
(* POST /api/intake: received -> authenticated -> validated -> persisted   *)
(* -> provisioned -> responded.                                            *)
(***************************************************************************)
Reqs == 1..NumReqs

\* The JSON body of the request: the form's free-text fields as typed.
MkPayload(email, first, last, city) ==
    [email |-> email, firstName |-> first, lastName |-> last, department |-> Null,
     jobTitle |-> Null, officeLocation |-> Null, workPhone |-> Null,
     address |-> Null, city |-> city, state |-> Null, zipCode |-> Null,
     phone |-> Null]

Payloads ==
    { MkPayload(<<" ", "a", "@", "x", " ">>, <<"A">>, <<" ", "L">>, <<"T", " ">>),
      MkPayload(<<" ", " ">>, <<"B">>, <<" ">>, Null),
      MkPayload(Null, Null, <<"L">>, Empty),
      MkPayload(<<"a", "x">>, <<"A">>, Null, Null) }

\* The principals that submit: one whose claims carry an email and one whose
\* claims carry none.
IntakeAuths ==
    FailedAuths
    \cup { MkAuth("ok", "list", << MkPrincipal(U1, AnaClaims, AToken) >>),
           MkAuth("ok", "list", << MkPrincipal(U2, NameOnlyClaims, Null) >>) }

\* The per-field maximum lengths: the widths of the table's columns.
FieldMax ==
    [email |-> 256, firstName |-> 150, lastName |-> 150, department |-> 150,
     jobTitle |-> 150, officeLocation |-> 150, workPhone |-> 50, address |-> 500,
     city |-> 150, state |-> 50, zipCode |-> 20, phone |-> 50]

\* Sanitizing one free-text field: trim, enforce the maximum length, and an
\* empty result is absent.
SanitizeField(v, max) ==
    IF v = Null THEN Null
    ELSE LET t == SliceTo(Trim(v), max)
         IN IF t = Empty THEN Null ELSE t

\* An e-mail address taken as typed, without sanitizing.
IntakeEmailUnsanitized(principal, payload) ==
    Or(payload.email, getClaimValue(principal.user_claims, EmailClaimTypes))

\* The e-mail address of the intake: the payload's, else the profile's.
IntakeEmail(principal, payload) ==
    LET fromPayload == SanitizeField(payload.email, FieldMax.email)
        fromProfile == SanitizeField(
                           getClaimValue(principal.user_claims, EmailClaimTypes),
                           FieldMax.email)
    IN IF fromPayload # Null THEN fromPayload ELSE fromProfile

\* The record handed to upsertIntakeForm.
IntakeForm(principal, payload) ==
    [f \in FormFields |-> SanitizeField(payload[f], FieldMax[f])]
        @@ [userId |-> principal.user_id]

NoResult == [kind |-> "absent", error |-> "ok"]

IdleReq ==
    [authResp |-> MkAuth("none", "none", <<>>), payload |-> MkPayload(Null, Null, Null, Null),
     principal |-> NoPrincipal, status |-> 0, accountCreation |-> NoResult,
     efsmodeInvite |-> NoResult, plan |-> {}, ext |-> AllOk, provCalls |-> {}]

\* received: a request arrives; `a` is what the platform answers for its
\* session cookies.
IntakeReceive(r, a) ==
    /\ pc[r] = "idle"
    /\ req' = [req EXCEPT ![r].authResp = a]
    /\ pc' = [pc EXCEPT ![r] = "received"]
    /\ UNCHANGED <<env, conns, pool, tableExists, table, nextId, clock, form, now, found,
                   committed, dbWrites, domainMemo>>

\* received -> authenticated: resolve the principal; on failure 401.
IntakeAuthenticate(r) ==
    /\ pc[r] = "received"
    /\ LET res == ResolvePrincipal(req[r].authResp)
       IN IF res.outcome = "ok"
          THEN /\ req' = [req EXCEPT ![r].principal = res.principal]
               /\ pc' = [pc EXCEPT ![r] = "authenticated"]
          ELSE /\ req' = [req EXCEPT ![r].status = 401]
               /\ pc' = [pc EXCEPT ![r] = "responded"]
    /\ UNCHANGED <<env, conns, pool, tableExists, table, nextId, clock, form, now, found,
                   committed, dbWrites, domainMemo>>

\* authenticated -> validated: sanitize the fields of the JSON body; without
\* an email 400; otherwise call upsertIntakeForm.
IntakeValidate(r, body) ==
    /\ pc[r] = "authenticated"
    /\ LET email == IntakeEmail(req[r].principal, body)
           f == [IntakeForm(req[r].principal, body) EXCEPT !.email = email]
       IN IF email = Null
          THEN /\ req' = [req EXCEPT ![r].payload = body, ![r].status = 400]
               /\ pc' = [pc EXCEPT ![r] = "responded"]
               /\ UNCHANGED form
          ELSE /\ req' = [req EXCEPT ![r].payload = body]
               /\ form' = [form EXCEPT ![r] = f]
               /\ pc' = [pc EXCEPT ![r] = "get_pool"]
    /\ UNCHANGED <<env, conns, pool, tableExists, table, nextId, clock, now, found,
                   committed, dbWrites, domainMemo>>

\* validated -> responded: upsertIntakeForm threw; 500.
IntakeUpsertFailed(r) ==
    /\ pc[r] = "threw"
    /\ req' = [req EXCEPT ![r].status = 500]
    /\ pc' = [pc EXCEPT ![r] = "responded"]
    /\ UNCHANGED <<env, conns, pool, tableExists, table, nextId, clock, form, now, found,
                   committed, dbWrites, domainMemo>>

\* persisted -> provisioned -> responded: attempt the account creation or
\* the invitation (`plan`, possibly neither) with the sanitized intake; a
\* failure becomes the error of the attempt's field of the response, which is
\* 200 {message, accountCreation, efsmodeInvite}.
IntakeProvision(r, plan, x) ==
    /\ pc[r] = "returned"
    /\ LET created == createUserFromIntake(env, domainMemo, x)
           invited == inviteExternalUserToEfmod(env, x, form[r])
       IN /\ req' = [req EXCEPT
                       ![r].plan = plan, ![r].ext = x, ![r].provCalls = plan,
                       ![r].accountCreation =
                           IF "create" \in plan
                           THEN [kind |-> created.kind, error |-> created.error]
                           ELSE NoResult,
                       ![r].efsmodeInvite =
                           IF "invite" \in plan THEN invited ELSE NoResult,
                       ![r].status = 200]
          /\ domainMemo' = IF "create" \in plan THEN created.memo ELSE domainMemo
    /\ pc' = [pc EXCEPT ![r] = "responded"]
    /\ UNCHANGED <<env, conns, pool, tableExists, table, nextId, clock, form, now, found,
                   committed, dbWrites>>

\* The environments of the intake flow: no SQL settings; a connection string
\* with every provisioning setting; a connection string with no provisioning
\* setting; managed identity with UPN_DOMAIN set.
IntakeEnvs ==
    { MkFullEnv(FALSE, FALSE, FALSE, TRUE, Null, TRUE),
      MkFullEnv(FALSE, FALSE, TRUE, TRUE, Null, TRUE),
      MkFullEnv(FALSE, FALSE, TRUE, FALSE, Null, FALSE),
      MkFullEnv(TRUE, TRUE, FALSE, TRUE, <<"d", ".", "o">>, TRUE) }

\* The table exists except on the first start against a new database.
IntakeInit ==
    /\ DbInit(Reqs, IntakeEnvs)
    /\ ~tableExists => env = MkFullEnv(FALSE, FALSE, TRUE, TRUE, Null, TRUE)
    /\ req = [r \in Reqs |-> IdleReq]
    /\ domainMemo = Null

IntakeNext ==
    \/ \E r \in Reqs, a \in IntakeAuths : IntakeReceive(r, a)
    \/ \E r \in Reqs : IntakeAuthenticate(r)
    \/ \E r \in Reqs, body \in Payloads : IntakeValidate(r, body)
    \/ \E r \in Reqs : UpsertStep(r)
    \/ \E r \in Reqs : IntakeUpsertFailed(r)
    \/ \E r \in Reqs, plan \in Plans :
          \E x \in ExtFor(plan) : IntakeProvision(r, plan, x)

SpecIntake == IntakeInit /\ [][IntakeNext]_vars

\* A value that is absent or blank: nothing is left of it after trimming.
Blank(v) == v = Null \/ \A i \in 1..Len(v) : v[i] = " "

\* What /.auth/me answered yields no principal with a user id.
Unresolvable(a) ==
    \/ a.fetch # "ok"
    \/ a.json # "list"
    \/ a.list = <<>>
    \/ a.list[1] = NoPrincipal
    \/ a.list[1].user_id \in {Null, Empty}

\* C3: a POST /api/intake request for which no authenticated principal can be
\* resolved goes from received straight to responded with status 401: it never
\* enters upsertIntakeForm and no write is executed for it.
C3_UnauthenticatedIntake401 ==
    \A r \in Reqs :
        (pc[r] # "idle" /\ Unresolvable(req[r].authResp)) =>
            /\ pc[r] \in {"received", "responded"}
            /\ pc[r] = "responded" => req[r].status = 401
            /\ form[r] = NoForm
            /\ dbWrites[r] = 0
            /\ req[r].provCalls = {}

\* A request whose principal carries claims but no user_id was answered 401.
C3_Witness ==
    \E r \in Reqs :
        /\ pc[r] = "responded"
        /\ req[r].status = 401
        /\ req[r].authResp.fetch = "ok"
        /\ req[r].authResp.list = << MkPrincipal(Null, AnaClaims, AToken) >>

\* Neither the payload nor any e-mail claim of the principal holds anything
\* but blanks.
NoDerivableEmail(principal, payload) ==
    /\ Blank(payload.email)
    /\ \A i \in 1..Len(principal.user_claims) :
          (\E j \in 1..Len(EmailClaimTypes) :
              principal.user_claims[i].typ = EmailClaimTypes[j])
          => Blank(principal.user_claims[i].val)

\* C4: a POST /api/intake request by an authenticated principal for which no
\* email can be derived, from the profile or from the payload after trimming,
\* ends with status 400, and no upsert is performed for it.
C4_NoEmailIntake400 ==
    \A r \in Reqs :
        ( /\ pc[r] \notin {"idle", "received", "authenticated"}
          /\ req[r].principal # NoPrincipal
          /\ NoDerivableEmail(req[r].principal, req[r].payload) ) =>
            /\ pc[r] = "responded"
            /\ req[r].status = 400
            /\ form[r] = NoForm
            /\ dbWrites[r] = 0
            /\ req[r].provCalls = {}

\* An authenticated request whose payload email is two blanks was answered 400.
C4_Witness ==
    \E r \in Reqs :
        /\ pc[r] = "responded"
        /\ req[r].status = 400
        /\ req[r].principal.user_id = U2
        /\ req[r].payload.email = <<" ", " ">>

\* The account creation of request r cannot have succeeded: the credentials
\* are missing, the token request or the user creation failed, or the domain
\* lookup failed with no domain configured or memoized.
CreateMustFail(r) ==
    \/ ~env.graphCreds
    \/ req[r].ext.token # "ok"
    \/ req[r].ext.users # "ok"
    \/ req[r].ext.domain # "ok" /\ env.upnDomain = Null /\ domainMemo = Null

\* The invitation of request r cannot have succeeded.
InviteMustFail(r) ==
    \/ ~env.efsmodCfg
    \/ req[r].ext.etoken # "ok"
    \/ req[r].ext.invite # "ok"
    \/ ~Includes(form[r].email, "@")

\* C5: if the upsert of a POST /api/intake request succeeded and the account
\* creation or invitation then fails (configuration, token, provider
\* non-success, transport), the request still responds 200, the user's intake
\* row is in the store, and the failure is the error of accountCreation or of
\* efsmodeInvite in the response.
C5_ProvisioningFailureIsSoft ==
    \A r \in Reqs :
        (pc[r] = "responded" /\ dbWrites[r] > 0) =>
            /\ req[r].status = 200
            /\ ExistsRow(table, form[r].userId)
            /\ ("create" \in req[r].plan /\ CreateMustFail(r)) =>
                  /\ req[r].accountCreation.kind = "error"
                  /\ req[r].accountCreation.error # "ok"
            /\ ("invite" \in req[r].plan /\ InviteMustFail(r)) =>
                  /\ req[r].efsmodeInvite.kind = "error"
                  /\ req[r].efsmodeInvite.error # "ok"

\* Graph answered the user creation with a non-success status: the request
\* was answered 200 with accountCreation.error, and the row is stored.
C5_Witness ==
    \E r \in Reqs :
        /\ pc[r] = "responded"
        /\ req[r].status = 200
        /\ req[r].plan = {"create"}
        /\ req[r].ext.users = "not_ok"
        /\ req[r].accountCreation = [kind |-> "error", error |-> "users_status"]
        /\ \E row \in table : RowForm(row) = form[r]

\* C6: account provisioning is attempted only after the upsert has succeeded;
\* if the upsert fails (configuration or connectivity error) the request ends
\* with status 500 and no provisioning call is made for it.
C6_ProvisionOnlyAfterUpsert ==
    \A r \in Reqs :
        /\ req[r].provCalls # {} => dbWrites[r] = 1
        /\ (pc[r] = "responded" /\ form[r] # NoForm /\ dbWrites[r] = 0) =>
              /\ req[r].status = 500
              /\ req[r].provCalls = {}
              /\ req[r].accountCreation = NoResult
              /\ req[r].efsmodeInvite = NoResult
        /\ (pc[r] = "responded" /\ form[r] # NoForm /\ ~env.server /\ ~env.connString)
              => req[r].status = 500 /\ dbWrites[r] = 0

\* A validated request met the missing SQL configuration and was answered 500.
C6_Witness ==
    \E r \in Reqs :
        /\ pc[r] = "responded"
        /\ form[r] # NoForm
        /\ ~env.server /\ ~env.connString
        /\ req[r].status = 500
        /\ req[r].provCalls = {}

(***************************************************************************)
(* GET /api/profile (app.js:98-206).                                       *)
(***************************************************************************)
\* The profile object: id and the eight profile fields.
MkProfile(id, displayName, firstName, lastName, email, department, jobTitle, phone, officeLocation) ==
    [id |-> id, displayName |-> displayName, firstName |-> firstName,
     lastName |-> lastName, email |-> email, department |-> department,
     jobTitle |-> jobTitle, phone |-> phone, officeLocation |-> officeLocation]

NoProfile == MkProfile(Null, Null, Null, Null, Null, Null, Null, Null, Null)

\* const baseProfile = {...}: the profile built from the claims (officeLocation
\* has no claim and starts undefined).
BaseProfile(principal) ==
    LET claims == principal.user_claims
    IN MkProfile(principal.user_id,
                 getClaimValue(claims, DisplayNameClaimTypes),
                 getClaimValue(claims, FirstNameClaimTypes),
                 getClaimValue(claims, LastNameClaimTypes),
                 getClaimValue(claims, EmailClaimTypes),
                 getClaimValue(claims, DepartmentClaimTypes),
                 getClaimValue(claims, JobTitleClaimTypes),
                 getClaimValue(claims, PhoneClaimTypes),
                 Null)

\* The JSON of Graph /me; businessPhones is a list of strings (an absent list
\* is the empty one: both have no first element).
MkGraph(displayName, givenName, surname, mail, upn, jobTitle, department, mobilePhone, businessPhones, officeLocation) ==
    [displayName |-> displayName, givenName |-> givenName, surname |-> surname,
     mail |-> mail, userPrincipalName |-> upn, jobTitle |-> jobTitle,
     department |-> department, mobilePhone |-> mobilePhone,
     businessPhones |-> businessPhones, officeLocation |-> officeLocation]

NoGraph == MkGraph(Null, Null, Null, Null, Null, Null, Null, Null, <<>>, Null)

\* graphProfile.businessPhones?.[0]
FirstBusinessPhone(g) ==
    IF Len(g.businessPhones) > 0 THEN g.businessPhones[1] ELSE Null

\* An overlay in which a claim value, where there is one, is kept.
OverlayClaimsFirst(base, g) ==
    [base EXCEPT
        !.displayName = Or(base.displayName, g.displayName),
        !.firstName = Or(base.firstName, g.givenName),
        !.lastName = Or(base.lastName, g.surname),
        !.email = Or(base.email, Or(g.mail, g.userPrincipalName)),
        !.department = Or(base.department, g.department),
        !.jobTitle = Or(base.jobTitle, g.jobTitle),
        !.phone = Or(base.phone, Or(g.mobilePhone, FirstBusinessPhone(g))),
        !.officeLocation = Or(base.officeLocation, g.officeLocation)]

\* The overlay of the Graph fields onto the base profile (app.js:178-185).
OverlayGraph(base, g) ==
    [base EXCEPT
        !.displayName = Or(g.displayName, base.displayName),
        !.firstName = Or(g.givenName, base.firstName),
        !.lastName = Or(g.surname, base.lastName),
        !.email = Or(g.mail, Or(g.userPrincipalName, base.email)),
        !.department = Or(g.department, base.department),
        !.jobTitle = Or(g.jobTitle, base.jobTitle),
        !.phone = Or(g.mobilePhone, Or(FirstBusinessPhone(g), base.phone)),
        !.officeLocation = Or(g.officeLocation, base.officeLocation)]

\* The answer of fetch(graph /me): the fetch throws, or responds with a success
\* or non-success status; on success the body fails to parse, parses to null,
\* or parses to an object.
MkGraphResp(fetch, json, profile) == [fetch |-> fetch, json |-> json, profile |-> profile]

NoGraphResp == MkGraphResp("none", "none", NoGraph)

GraphProfiles ==
    { MkGraph(<<"G", "n">>, <<"G">>, <<"S">>, <<"g", "@", "m">>, <<"g", "@", "u">>,
              <<"J">>, <<"E">>, <<"7">>, << <<"8">> >>, <<"O">>),
      NoGraph,
      MkGraph(Empty, Null, <<"S">>, Null, <<"g", "@", "u">>, Empty, Null, Empty,
              << <<"8">>, <<"9">> >>, Null),
      MkGraph(Null, <<"G">>, Empty, Empty, Null, Null, <<"E">>, Null, << Empty >>,
              Empty),
      MkGraph(<<"G", "n">>, Null, Null, Empty, Empty, <<"J">>, Null, <<"7">>, <<>>,
              <<"O">>) }

GraphResps ==
    { MkGraphResp("throws", "none", NoGraph),
      MkGraphResp("not_ok", "none", NoGraph),
      MkGraphResp("ok", "throws", NoGraph),
      MkGraphResp("ok", "null", NoGraph) }
    \cup { MkGraphResp("ok", "object", g) : g \in GraphProfiles }

\* A handler in which a failed Graph call fails the request.
GraphFailureIsFatal(base, g) ==
    IF g.fetch = "ok" /\ g.json = "object"
    THEN [status |-> 200, profile |-> OverlayGraph(base, g.profile),
          graph |-> [present |-> TRUE, profile |-> g.profile]]
    ELSE [status |-> 500, profile |-> NoProfile,
          graph |-> [present |-> FALSE, profile |-> NoGraph]]

\* The inner try of the handler (app.js:168-191) and the response: the Graph
\* profile is overlaid when the call succeeded; any failure is caught and
\* leaves graphProfile null.
GraphEnhance(base, g) ==
    IF g.fetch = "ok" /\ g.json = "object"
    THEN [status |-> 200, profile |-> OverlayGraph(base, g.profile),
          graph |-> [present |-> TRUE, profile |-> g.profile]]
    ELSE [status |-> 200, profile |-> base,
          graph |-> [present |-> FALSE, profile |-> NoGraph]]

ProfileAuths ==
    FailedAuths
    \cup { MkAuth("ok", "list", << MkPrincipal(U1, c, t) >>) :
              c \in {AnaClaims, BobClaims, NameOnlyClaims, <<>>}, t \in {AToken, Null} }
    \cup { MkAuth("ok", "list", << MkPrincipal(U2, BobClaims, Empty),
                                   MkPrincipal(U1, AnaClaims, AToken) >>) }

IdleProfileReq ==
    [authResp |-> MkAuth("none", "none", <<>>), principal |-> NoPrincipal,
     claimProfile |-> NoProfile, profile |-> NoProfile, hasProfile |-> FALSE,
     graphResp |-> NoGraphResp, graph |-> [present |-> FALSE, profile |-> NoGraph],
     graphCalls |-> 0, status |-> 0]

\* The request arrives and the handler awaits fetch(`.../.auth/me`).
ProfileReceive(r, a) ==
    /\ pc[r] = "idle"
    /\ req' = [req EXCEPT ![r].authResp = a]
    /\ pc' = [pc EXCEPT ![r] = "received"]
    /\ UNCHANGED <<dbVarsButPc, domainMemo>>

\* The principal is resolved (app.js:108-124), the base profile is built from
\* the claims (126-161); with an access token the Graph call is sent (167-173),
\* without one the claims-only profile is returned (192-201).
ProfileAuthenticate(r) ==
    /\ pc[r] = "received"
    /\ LET res == ResolvePrincipal(req[r].authResp)
           base == BaseProfile(res.principal)
       IN IF res.outcome = "error"
          THEN /\ req' = [req EXCEPT ![r].status = 500]
               /\ pc' = [pc EXCEPT ![r] = "responded"]
          ELSE IF res.outcome = "unauthenticated"
          THEN /\ req' = [req EXCEPT ![r].status = 401]
               /\ pc' = [pc EXCEPT ![r] = "responded"]
          ELSE IF Truthy(res.principal.access_token)
          THEN /\ req' = [req EXCEPT ![r].principal = res.principal,
                                     ![r].claimProfile = base,
                                     ![r].graphCalls = @ + 1]
               /\ pc' = [pc EXCEPT ![r] = "await_graph"]
          ELSE /\ req' = [req EXCEPT ![r].principal = res.principal,
                                     ![r].claimProfile = base,
                                     ![r].profile = base, ![r].hasProfile = TRUE,
                                     ![r].status = 200]
               /\ pc' = [pc EXCEPT ![r] = "responded"]
    /\ UNCHANGED <<dbVarsButPc, domainMemo>>

\* Graph answers (or the fetch throws); the profile is returned.
ProfileGraph(r, g) ==
    /\ pc[r] = "await_graph"
    /\ LET out == GraphEnhance(req[r].claimProfile, g)
       IN req' = [req EXCEPT ![r].graphResp = g, ![r].status = out.status,
                             ![r].profile = out.profile,
                             ![r].hasProfile = (out.status = 200),
                             ![r].graph = out.graph]
    /\ pc' = [pc EXCEPT ![r] = "responded"]
    /\ UNCHANGED <<dbVarsButPc, domainMemo>>

ProfileInit ==
    /\ DbInit(Procs, {MkEnv(FALSE, FALSE, TRUE)})
    /\ tableExists
    /\ req = [r \in Procs |-> IdleProfileReq]
    /\ domainMemo = Null

ProfileNext ==
    \/ \E r \in Procs, a \in ProfileAuths : ProfileReceive(r, a)
    \/ \E r \in Procs : ProfileAuthenticate(r)
    \/ \E r \in Procs, g \in GraphResps : ProfileGraph(r, g)

SpecProfile == ProfileInit /\ [][ProfileNext]_vars

\* The returned value of a field whose Graph value is gv and whose
\* claim-derived value is cv: gv when Graph returned a non-empty value, cv
\* when Graph returned nothing.
GraphValueWins(gv, cv, returned) ==
    /\ (gv # Null /\ gv # Empty) => returned = gv
    /\ (gv = Null \/ gv = Empty) => returned = cv

\* C7: in GET /api/profile, for every profile field, when the Graph /me call
\* succeeded and returned a non-empty value for the field the returned profile
\* carries the Graph value whatever the claim value is, and when Graph returned
\* nothing for the field the claim-derived value is kept. (The Graph value of
\* email is mail, else userPrincipalName; that of phone is mobilePhone, else
\* the first business phone.)
C7_GraphValuesTakePrecedence ==
    \A r \in Procs :
        (pc[r] = "responded" /\ req[r].graphResp.fetch = "ok"
                             /\ req[r].graphResp.json = "object") =>
            LET g == req[r].graphResp.profile
                c == req[r].claimProfile
                p == req[r].profile
                gMail == IF g.mail \notin {Null, Empty} THEN g.mail
                         ELSE g.userPrincipalName
                gPhone == IF g.mobilePhone \notin {Null, Empty} THEN g.mobilePhone
                          ELSE IF g.businessPhones = <<>> THEN Null
                          ELSE g.businessPhones[1]
            IN /\ req[r].status = 200
               /\ req[r].hasProfile
               /\ p.id = req[r].principal.user_id
               /\ GraphValueWins(g.displayName, c.displayName, p.displayName)
               /\ GraphValueWins(g.givenName, c.firstName, p.firstName)
               /\ GraphValueWins(g.surname, c.lastName, p.lastName)
               /\ GraphValueWins(gMail, c.email, p.email)
               /\ GraphValueWins(g.department, c.department, p.department)
               /\ GraphValueWins(g.jobTitle, c.jobTitle, p.jobTitle)
               /\ GraphValueWins(gPhone, c.phone, p.phone)
               /\ GraphValueWins(g.officeLocation, c.officeLocation, p.officeLocation)

\* Claims and Graph both name the user and give an email, differently: the
\* returned profile carries Graph's; Graph has no department, the claim's stays.
C7_Witness ==
    /\ \E r \in Procs :
        /\ pc[r] = "responded"
        /\ req[r].graphResp.json = "object"
        /\ req[r].claimProfile.displayName = <<"A", "n", "a">>
        /\ req[r].profile.displayName = <<"G", "n">>
        /\ req[r].claimProfile.email = <<"c", "@", "x">>
        /\ req[r].profile.email = <<"g", "@", "m">>
    /\ \E r \in Procs :
        /\ pc[r] = "responded"
        /\ req[r].graphResp.json = "object"
        /\ req[r].graphResp.profile.department = Null
        /\ req[r].profile.department = <<"D">>

\* C8: in GET /api/profile for an authenticated principal, a failure of the
\* Graph /me call (a non-success status, a thrown transport error, a body that
\* is no object) never changes the response status: the handler responds 200
\* with the profile built from the claims only and graph = null.
C8_GraphFailureIsNotFatal ==
    \A r \in Procs :
        (pc[r] = "responded" /\ req[r].graphCalls > 0
           /\ (req[r].graphResp.fetch # "ok" \/ req[r].graphResp.json # "object")) =>
            /\ req[r].status = 200
            /\ req[r].hasProfile
            /\ req[r].profile = req[r].claimProfile
            /\ ~req[r].graph.present

\* The Graph fetch threw, and one answered with a non-success status: both
\* requests were answered 200 with the claims' display name.
C8_Witness ==
    /\ \E r \in Procs :
        /\ pc[r] = "responded"
        /\ req[r].graphResp.fetch = "throws"
        /\ req[r].status = 200
        /\ req[r].profile.displayName = <<"A", "n", "a">>
    /\ \E r \in Procs :
        /\ pc[r] = "responded"
        /\ req[r].graphResp.fetch = "not_ok"
        /\ req[r].status = 200

\* /.auth/me returned a non-success status, an empty list, or a first entry
\* without user_id.
NoValidPrincipal(a) ==
    \/ a.fetch = "not_ok"
    \/ /\ a.fetch = "ok"
       /\ a.json = "list"
       /\ \/ a.list = <<>>
          \/ a.list[1] = NoPrincipal
          \/ a.list[1].user_id \in {Null, Empty}

\* C9: GET /api/profile responds 401 whenever the platform /.auth/me call
\* returns a non-success status, an empty list, or a first entry without
\* user_id; in every such case no Graph call is made and no profile is returned.
C9_ProfileUnauthenticated401 ==
    \A r \in Procs :
        (pc[r] # "idle" /\ NoValidPrincipal(req[r].authResp)) =>
            /\ pc[r] \in {"received", "responded"}
            /\ pc[r] = "responded" => req[r].status = 401
            /\ req[r].graphCalls = 0
            /\ ~req[r].hasProfile
            /\ req[r].profile = NoProfile

\* A first entry with claims and an access token but an empty user_id was
\* answered 401.
C9_Witness ==
    \E r \in Procs :
        /\ pc[r] = "responded"
        /\ req[r].status = 401
        /\ req[r].authResp.list = << MkPrincipal(Empty, AnaClaims, AToken) >>

(***************************************************************************)
(* GET /api/auth/status (app.js:209-252) and GET /api/auth/me              *)
(* (app.js:255-293).                                                       *)
(***************************************************************************)
\* The user object of the response body.
MkUser(id, name, email, provider) ==
    [id |-> id, name |-> name, email |-> email, provider |-> provider]

NoUser == MkUser(Null, Null, Null, "")

\* A response: its status and the keys of its JSON body. The 500 body of
\* /api/auth/status is { error, authenticated: false }: it has no user key.
MkAuthBody(status, hasError, authenticated, hasUser, user) ==
    [status |-> status, hasError |-> hasError, authenticated |-> authenticated,
     hasUser |-> hasUser, user |-> user]

NoAuthBody == MkAuthBody(0, FALSE, FALSE, FALSE, NoUser)

\* { authenticated: false, user: null } with status 200.
Anonymous == MkAuthBody(200, FALSE, FALSE, TRUE, NoUser)

\* The x-ms-client-principal* headers of a request. The principal header is
\* absent (or empty), or its base64-decoded text is malformed JSON, the JSON
\* null, or a JSON object with userId, sid, userDetails and claims; claims is
\* absent, a list of {typ, val}, or a value with no find method.
MkHeaders(present, json, userId, sid, userDetails, claimsKind, claims, idp, name) ==
    [present |-> present, json |-> json, userId |-> userId, sid |-> sid,
     userDetails |-> userDetails, claimsKind |-> claimsKind, claims |-> claims,
     idp |-> idp, name |-> name]

NoHeaders == MkHeaders(FALSE, "none", Null, Null, Null, "absent", <<>>, "", Null)

HeaderSamples ==
    { NoHeaders,
      [NoHeaders EXCEPT !.idp = "google", !.name = <<"N">>],
      MkHeaders(TRUE, "malformed", Null, Null, Null, "absent", <<>>, "", Null),
      MkHeaders(TRUE, "malformed", Null, Null, Null, "absent", <<>>, "google", <<"N">>),
      MkHeaders(TRUE, "null", Null, Null, Null, "absent", <<>>, "", Null),
      MkHeaders(TRUE, "object", U1, Null, <<"d">>, "not_list", <<>>, "", Null),
      MkHeaders(TRUE, "object", U1, U2, <<"d">>, "list", AnaClaims, "google", <<"N">>),
      MkHeaders(TRUE, "object", Null, U2, Empty, "list", BobClaims, "", <<"N">>),
      MkHeaders(TRUE, "object", Empty, Null, Null, "absent", <<>>, "", Null),
      MkHeaders(TRUE, "object", U1, Null, Null, "list", NameOnlyClaims, "", Empty) }

\* A handler whose catch answers as the unauthenticated branch does.
AuthStatusFailsSoft(h) ==
    IF ~h.present THEN Anonymous
    ELSE IF h.json # "object" \/ h.claimsKind = "not_list" THEN Anonymous
    ELSE MkAuthBody(200, FALSE, TRUE, TRUE,
             MkUser(Or(h.userId, h.sid), Or(h.userDetails, h.name),
                    IF h.claimsKind = "absent" THEN Null
                    ELSE FindClaim(h.claims, EmailClaimTypes[1]).val,
                    IF h.idp = "" THEN "aad" ELSE h.idp))

\* The /api/auth/status handler. JSON.parse throws on malformed text,
\* userInfo.userId throws on null, userInfo.claims?.find(...) throws when
\* claims has no find: the catch answers 500.
AuthStatusOutcome(h) ==
    IF ~h.present THEN Anonymous
    ELSE IF h.json # "object" \/ h.claimsKind = "not_list"
         THEN MkAuthBody(500, TRUE, FALSE, FALSE, NoUser)
    ELSE MkAuthBody(200, FALSE, TRUE, TRUE,
             MkUser(Or(h.userId, h.sid), Or(h.userDetails, h.name),
                    IF h.claimsKind = "absent" THEN Null
                    ELSE FindClaim(h.claims, EmailClaimTypes[1]).val,
                    IF h.idp = "" THEN "aad" ELSE h.idp))

\* A handler whose catch answers 500 as that of /api/auth/status does.
AuthMeFailsHard(a) ==
    IF a.fetch = "throws" \/ (a.fetch = "ok" /\ a.json = "throws")
    THEN MkAuthBody(500, TRUE, FALSE, FALSE, NoUser)
    ELSE IF a.fetch = "ok" /\ a.json = "list" /\ Len(a.list) > 0
            /\ a.list[1] = NoPrincipal
    THEN MkAuthBody(500, TRUE, FALSE, FALSE, NoUser)
    ELSE IF a.fetch = "ok" /\ a.json = "list" /\ Len(a.list) > 0
            /\ Truthy(a.list[1].user_id)
    THEN LET userInfo == a.list[1]
         IN MkAuthBody(200, FALSE, TRUE, TRUE,
                MkUser(userInfo.user_id,
                       Or(FindClaim(userInfo.user_claims, "name").val, userInfo.user_id),
                       FindClaim(userInfo.user_claims, EmailClaimTypes[1]).val,
                       IF userInfo.identity_provider = "" THEN "aad"
                       ELSE userInfo.identity_provider))
    ELSE Anonymous

\* The /api/auth/me handler. A thrown fetch, a thrown json() and a null first
\* entry (authData[0].user_id throws) reach the catch, which answers
\* { authenticated: false, user: null } with status 200, as the non-success
\* and the no-principal branches do.
AuthMeOutcome(a) ==
    IF a.fetch = "throws" \/ (a.fetch = "ok" /\ a.json = "throws")
    THEN Anonymous
    ELSE IF a.fetch = "ok" /\ a.json = "list" /\ Len(a.list) > 0
            /\ a.list[1] = NoPrincipal
    THEN Anonymous
    ELSE IF a.fetch = "ok" /\ a.json = "list" /\ Len(a.list) > 0
            /\ Truthy(a.list[1].user_id)
    THEN LET userInfo == a.list[1]
         IN MkAuthBody(200, FALSE, TRUE, TRUE,
                MkUser(userInfo.user_id,
                       Or(FindClaim(userInfo.user_claims, "name").val, userInfo.user_id),
                       FindClaim(userInfo.user_claims, EmailClaimTypes[1]).val,
                       IF userInfo.identity_provider = "" THEN "aad"
                       ELSE userInfo.identity_provider))
    ELSE Anonymous

AuthMeAuths ==
    FailedAuths
    \cup { MkAuth("ok", "list", << MkPrincipal(U1, c, AToken) >>) :
              c \in {AnaClaims, BobClaims, <<>>} }

IdleAuthReq ==
    [route |-> "none", headers |-> NoHeaders,
     authResp |-> MkAuth("none", "none", <<>>), body |-> NoAuthBody]

\* GET /api/auth/status: a synchronous handler, answered in one step.
AuthStatus(r, h) ==
    /\ pc[r] = "idle"
    /\ req' = [req EXCEPT ![r].route = "status", ![r].headers = h,
                          ![r].body = AuthStatusOutcome(h)]
    /\ pc' = [pc EXCEPT ![r] = "responded"]
    /\ UNCHANGED <<dbVarsButPc, domainMemo>>

\* GET /api/auth/me arrives and the handler awaits fetch(`.../.auth/me`).
AuthMeReceive(r, a) ==
    /\ pc[r] = "idle"
    /\ req' = [req EXCEPT ![r].route = "me", ![r].authResp = a]
    /\ pc' = [pc EXCEPT ![r] = "received"]
    /\ UNCHANGED <<dbVarsButPc, domainMemo>>

\* /.auth/me answers (or the fetch throws) and the handler responds.
AuthMeRespond(r) ==
    /\ pc[r] = "received"
    /\ req[r].route = "me"
    /\ req' = [req EXCEPT ![r].body = AuthMeOutcome(req[r].authResp)]
    /\ pc' = [pc EXCEPT ![r] = "responded"]
    /\ UNCHANGED <<dbVarsButPc, domainMemo>>

AuthInit ==
    /\ DbInit(Procs, {MkEnv(FALSE, FALSE, TRUE)})
    /\ tableExists
    /\ req = [r \in Procs |-> IdleAuthReq]
    /\ domainMemo = Null

AuthNext ==
    \/ \E r \in Procs, h \in HeaderSamples : AuthStatus(r, h)
    \/ \E r \in Procs, a \in AuthMeAuths : AuthMeReceive(r, a)
    \/ \E r \in Procs : AuthMeRespond(r)

SpecAuth == AuthInit /\ [][AuthNext]_vars

\* Handling the request threw: the principal header did not decode, or an
\* error was thrown while resolving /.auth/me.
DecodeFailed(r) ==
    IF req[r].route = "status"
    THEN req[r].headers.present
         /\ (req[r].headers.json # "object" \/ req[r].headers.claimsKind = "not_list")
    ELSE \/ req[r].authResp.fetch = "throws"
         \/ req[r].authResp.fetch = "ok" /\ req[r].authResp.json = "throws"
         \/ req[r].authResp.fetch = "ok" /\ req[r].authResp.json = "list"
            /\ req[r].authResp.list # <<>> /\ req[r].authResp.list[1] = NoPrincipal

\* C10 as stated: GET /api/auth/status and GET /api/auth/me both respond 500
\* whenever decoding the principal fails (malformed x-ms-client-principal
\* header or a thrown error while resolving /.auth/me), and otherwise respond
\* 200 with { authenticated, user }.
C10_BothRespond500OnDecodeFailure ==
    \A r \in Procs :
        pc[r] = "responded" =>
            IF DecodeFailed(r) THEN req[r].body.status = 500
            ELSE req[r].body.status = 200 /\ req[r].body.hasUser

\* C10 amended: GET /api/auth/status responds 500 whenever decoding the
\* x-ms-client-principal header throws, and otherwise 200 with
\* { authenticated, user }; GET /api/auth/me never responds 500: a thrown error
\* while resolving /.auth/me is answered 200 with
\* { authenticated: false, user: null }.
C10_StatusResponds500MeResponds200 ==
    \A r \in Procs :
        pc[r] = "responded" =>
            /\ (req[r].route = "status" /\ DecodeFailed(r)) =>
                   /\ req[r].body.status = 500
                   /\ ~req[r].body.authenticated
            /\ (req[r].route = "status" /\ ~DecodeFailed(r)) =>
                   /\ req[r].body.status = 200
                   /\ req[r].body.hasUser
                   /\ req[r].body.authenticated = req[r].headers.present
            /\ req[r].route = "me" =>
                   /\ req[r].body.status = 200
                   /\ req[r].body.hasUser
                   /\ DecodeFailed(r) =>
                          ~req[r].body.authenticated /\ req[r].body.user = NoUser

\* A malformed header was answered 500 by /api/auth/status, and a thrown
\* fetch of /.auth/me was answered 200 by /api/auth/me.
C10_Witness ==
    /\ \E r \in Procs :
        /\ pc[r] = "responded"
        /\ req[r].route = "status"
        /\ req[r].headers.json = "malformed"
        /\ req[r].body.status = 500
    /\ \E r \in Procs :
        /\ pc[r] = "responded"
        /\ req[r].route = "me"
        /\ req[r].authResp.fetch = "throws"
        /\ req[r].body.status = 200

(***************************************************************************)
(* The names of a new account: sanitize, makeMailNickname and pickUpn      *)
(* (config/msgraph-account.js:77-99).                                      *)
(*                                                                         *)
(* A string is the sequence of its UTF-16 code units. Beside the ASCII     *)
(* characters the model has "é" (U+00E9), the combining acute accent       *)
(* U+0301 it decomposes to, and the surrogate pair U+D801 U+DC00 of the    *)
(* letter U+10400, which has no decomposition.                             *)
(***************************************************************************)
Letters ==
    { "a", "b", "c", "d", "e", "f", "g", "h", "i", "j", "k", "l", "m",
      "n", "o", "p", "q", "r", "s", "t", "u", "v", "w", "x", "y", "z",
      "A", "B", "C", "D", "E", "F", "G", "H", "I", "J", "K", "L", "M",
      "N", "O", "P", "Q", "R", "S", "T", "U", "V", "W", "X", "Y", "Z", "é" }

Digits == { "0", "1", "2", "3", "4", "5", "6", "7", "8", "9" }

HighSurrogate == "U+D801"
LowSurrogate == "U+DC00"
CombiningAcute == "U+0301"

\* The default parameters of sanitize: { max = 64, fallback = 'user' }.
NicknameMax == 64
User == <<"u", "s", "e", "r">>

\* The elements of s at the positions in `keep`, in order.
SelectAt(s, keep) ==
    [k \in 1..Cardinality(keep) |->
        s[CHOOSE i \in keep : Cardinality({ j \in keep : j <= i }) = k]]

\* String.prototype.normalize('NFKD'): "é" becomes "e" and the combining
\* accent, every other character of the model is its own decomposition.
NormalizeNFKD(s) ==
    LET start(i) == i + Cardinality({ j \in 1..(i - 1) : s[j] = "é" })
        n == Len(s) + Cardinality({ j \in 1..Len(s) : s[j] = "é" })
    IN [k \in 1..n |->
          IF \E i \in 1..Len(s) : start(i) = k
          THEN LET i == CHOOSE i \in 1..Len(s) : start(i) = k
               IN IF s[i] = "é" THEN "e" ELSE s[i]
          ELSE CombiningAcute]

\* .replace(/[^\p{L}\p{N}._-]/gu, ''): with the u flag a high surrogate
\* followed by a low one is one code point (here a letter, kept whole); a
\* lone surrogate is no letter.
StripForbidden(s) ==
    SelectAt(s, { i \in 1..Len(s) :
                    \/ s[i] \in Letters \cup Digits \cup {".", "_", "-"}
                    \/ s[i] = HighSurrogate /\ i < Len(s) /\ s[i + 1] = LowSurrogate
                    \/ s[i] = LowSurrogate /\ i > 1 /\ s[i - 1] = HighSurrogate })

\* A sanitize that does not truncate.
SanitizeUntruncated(str, max, fallback) ==
    IF str = Null THEN fallback
    ELSE LET s == StripForbidden(NormalizeNFKD(str))
         IN IF s = Empty THEN fallback ELSE s

\* sanitize(str, { max, fallback }); a str that is no string is Null.
sanitize(str, max, fallback) ==
    IF str = Null THEN fallback
    ELSE LET s == StripForbidden(NormalizeNFKD(str))
         IN SliceTo(IF s = Empty THEN fallback ELSE s, max)

\* email.split('@')[0]
BeforeAt(s) ==
    LET ats == { i \in 1..Len(s) : s[i] = "@" }
    IN IF ats = {} THEN s
       ELSE SubSeq(s, 1, (CHOOSE i \in ats : \A j \in ats : i <= j) - 1)

\* [firstName, lastName].filter(Boolean).join(sep)
JoinNames(firstName, lastName, sep) ==
    IF Truthy(firstName) /\ Truthy(lastName) THEN firstName \o <<sep>> \o lastName
    ELSE IF Truthy(firstName) THEN firstName
    ELSE IF Truthy(lastName) THEN lastName
    ELSE Empty

\* A makeMailNickname that takes the whole email for the local part.
MailNicknameOfWholeEmail(firstName, lastName, email) ==
    IF Truthy(email) /\ Includes(email, "@")
    THEN sanitize(email, NicknameMax, User)
    ELSE sanitize(Or(JoinNames(firstName, lastName, "."), User), NicknameMax, User)

\* makeMailNickname({ firstName, lastName, email })
makeMailNickname(firstName, lastName, email) ==
    IF Truthy(email) /\ Includes(email, "@")
    THEN sanitize(BeforeAt(email), NicknameMax, User)
    ELSE sanitize(Or(JoinNames(firstName, lastName, "."), User), NicknameMax, User)

\* pickUpn({ email }, upnDomain): null when the caller is to compose the name.
pickUpn(email, upnDomain) ==
    IF Truthy(upnDomain) THEN Null
    ELSE IF Truthy(email) /\ Includes(email, "@") THEN Trim(email)
    ELSE Null

(***************************************************************************)
(* createUserFromIntake (config/msgraph-account.js:30-75, 113-204) and     *)
(* inviteExternalUserToEfmod (the EFSMOD helper), one awaited HTTP call    *)
(* at a time.                                                              *)
(***************************************************************************)
\* Which of tenant id, client id and client secret are set.
MkCreds(tenantId, clientId, clientSecret) ==
    [tenantId |-> tenantId, clientId |-> clientId, clientSecret |-> clientSecret]

\* The EFSMOD settings: the credentials, EFSMOD_BASE_URL and
\* EFSMOD_REDIRECT_PATH (Null when unset).
MkEfmod(tenantId, clientId, clientSecret, baseUrl, redirectPath) ==
    [tenantId |-> tenantId, clientId |-> clientId, clientSecret |-> clientSecret,
     baseUrl |-> baseUrl, redirectPath |-> redirectPath]

\* A loadClientCredentials that does not look at the client secret.
CredentialsWithoutSecret(e) == e.graph.tenantId /\ e.graph.clientId

\* loadClientCredentials: TRUE when it returns, FALSE when it throws.
loadClientCredentials(e) ==
    e.graph.tenantId /\ e.graph.clientId /\ e.graph.clientSecret

DefaultRedirectPath == <<"/", "s", "c", "h", "o", "o", "l", "-", "r", "e", "a", "d", "i", "n", "e", "s", "s">>

\* getEfmodConfig: ok is FALSE when it throws.
getEfmodConfig(e) ==
    [ok |-> /\ e.efsmod.tenantId /\ e.efsmod.clientId /\ e.efsmod.clientSecret
            /\ Truthy(e.efsmod.baseUrl),
     baseUrl |-> e.efsmod.baseUrl,
     redirectPath |-> Or(e.efsmod.redirectPath, DefaultRedirectPath)]

\* process.env of a provisioning process; graphCreds and efsmodCfg say whether
\* the two groups of settings are complete.
MkProvEnv(graph, upnDomain, efsmod) ==
    LET e == [graph |-> graph, efsmod |-> efsmod]
    IN MkFullEnv(FALSE, FALSE, TRUE, loadClientCredentials(e), upnDomain,
                 getEfmodConfig(e).ok) @@ e

BaseUrl == <<"h", ".", "i", "o">>

ProvEnvs ==
    { MkProvEnv(MkCreds(TRUE, TRUE, TRUE), Null,
                MkEfmod(TRUE, TRUE, TRUE, BaseUrl, Null)),
      MkProvEnv(MkCreds(TRUE, TRUE, TRUE), <<"d", ".", "o">>,
                MkEfmod(TRUE, TRUE, TRUE, BaseUrl, <<"s", " ", "r">>)),
      MkProvEnv(MkCreds(TRUE, TRUE, FALSE), Null,
                MkEfmod(TRUE, TRUE, TRUE, Null, <<"/", "s">>)),
      MkProvEnv(MkCreds(FALSE, TRUE, TRUE), <<"d", ".", "o">>,
                MkEfmod(TRUE, FALSE, TRUE, BaseUrl, <<"/", "s">>)) }

\* The intake handed to the provisioning call.
MkIntake(email, firstName, lastName) ==
    [email |-> email, firstName |-> firstName, lastName |-> lastName]

NoIntake == MkIntake(Null, Null, Null)

ProvIntakes ==
    { MkIntake(<<" ", "a", "+", "b", "@", "x", " ">>, <<"A", " ">>, <<"L">>),
      MkIntake(Null, <<"A", "é">>, Null),
      MkIntake(<<"a", "x">>, Null, <<" ">>),
      MkIntake(<<" ">>, <<"A">>, <<"L", "!">>) }

\* The userPrincipalName of createUserFromIntake (lines 149-155); Null when it
\* throws 'Cannot determine userPrincipalName'.
ComposedUpn(intake, mailNickname, upnDomain) ==
    LET picked == pickUpn(intake.email, upnDomain)
    IN IF Truthy(picked) THEN picked
       ELSE IF ~Truthy(upnDomain) THEN Null
       ELSE mailNickname \o <<"@">> \o upnDomain

\* A call: the function, its argument, the HTTP requests it has sent to each
\* endpoint, the payload it sent and its result.
IdleProvCall ==
    [fn |-> "none", intake |-> NoIntake, tokenReqs |-> 0, tokenAnswer |-> "none",
     orgReqs |-> 0,
     usersReqs |-> 0, inviteReqs |-> 0, mailNickname |-> Null,
     userPrincipalName |-> Null, email |-> Null, kind |-> "pending",
     error |-> "ok", inviteRedeemUrl |-> Null, deepLink |-> Null,
     loginLink |-> Null]

\* The call has settled with an error.
Thrown(call, error) == [call EXCEPT !.kind = "error", !.error = error]

\* createUserFromIntake(intake) is called: getAppToken loads the credentials
\* and sends the token request.
CreateCall(p, intake) ==
    /\ pc[p] = "idle"
    /\ LET call == [IdleProvCall EXCEPT !.fn = "create", !.intake = intake]
       IN IF loadClientCredentials(env)
          THEN /\ req' = [req EXCEPT ![p] = [call EXCEPT !.tokenReqs = 1]]
               /\ pc' = [pc EXCEPT ![p] = "await_token"]
          ELSE /\ req' = [req EXCEPT ![p] = Thrown(call, "credentials_missing")]
               /\ pc' = [pc EXCEPT ![p] = "done"]
    /\ UNCHANGED <<dbVarsButPc, domainMemo>>

\* A createUserFromIntake that requires an email with an '@'.
SendUsersValidated(call, domain) ==
    IF ~Truthy(call.intake.email) \/ ~Includes(call.intake.email, "@")
    THEN Thrown(call, "invalid_email")
    ELSE [call EXCEPT !.userPrincipalName = Trim(call.intake.email),
                      !.usersReqs = @ + 1]

\* The names are fixed and POST /users is sent (lines 140-193), with `domain`
\* for upnDomain.
SendUsers(call, domain) ==
    LET firstName == Trim(Or(call.intake.firstName, Empty))
        lastName == Trim(Or(call.intake.lastName, Empty))
        mailNickname == makeMailNickname(firstName, lastName, call.intake.email)
        upn == ComposedUpn(call.intake, mailNickname, domain)
    IN IF upn = Null THEN Thrown(call, "cannot_determine_upn")
       ELSE [call EXCEPT !.mailNickname = mailNickname, !.userPrincipalName = upn,
                         !.email = Trim(Or(call.intake.email, Empty)),
                         !.usersReqs = @ + 1]

\* The token endpoint answers getAppToken. With a token the domain is the
\* UPN_DOMAIN override, else the memoized one, else GET /organization is sent.
CreateToken(p, t) ==
    /\ pc[p] = "await_token"
    /\ req[p].fn = "create"
    /\ LET tok == getAppToken(env, [AllOk EXCEPT !.token = t])
           known == Or(env.upnDomain, domainMemo)
           sent == SendUsers(req[p], known)
       IN IF tok # "ok"
          THEN /\ req' = [req EXCEPT ![p] = Thrown([req[p] EXCEPT !.tokenAnswer = t], tok)]
               /\ pc' = [pc EXCEPT ![p] = "done"]
          ELSE IF Truthy(known)
          THEN /\ req' = [req EXCEPT ![p] = [sent EXCEPT !.tokenAnswer = t]]
               /\ pc' = [pc EXCEPT ![p] = IF sent.kind = "error" THEN "done"
                                          ELSE "await_users"]
          ELSE /\ req' = [req EXCEPT ![p].orgReqs = @ + 1, ![p].tokenAnswer = t]
               /\ pc' = [pc EXCEPT ![p] = "await_domain"]
    /\ UNCHANGED <<dbVarsButPc, domainMemo>>

\* Graph answers GET /organization: the preferred domain is memoized and
\* POST /users is sent.
CreateDomain(p, d) ==
    /\ pc[p] = "await_domain"
    /\ LET dom == fetchDefaultVerifiedDomain(Null, [AllOk EXCEPT !.domain = d])
           sent == SendUsers(req[p], dom.domain)
       IN IF dom.error # "ok"
          THEN /\ req' = [req EXCEPT ![p] = Thrown(req[p], dom.error)]
               /\ pc' = [pc EXCEPT ![p] = "done"]
               /\ UNCHANGED domainMemo
          ELSE /\ req' = [req EXCEPT ![p] = sent]
               /\ pc' = [pc EXCEPT ![p] = IF sent.kind = "error" THEN "done"
                                          ELSE "await_users"]
               /\ domainMemo' = dom.memo
    /\ UNCHANGED dbVarsButPc

\* Graph answers POST /users.
CreateUsers(p, u) ==
    /\ pc[p] = "await_users"
    /\ req' = [req EXCEPT ![p] =
                 IF u = "throws" THEN Thrown(@, "users_transport")
                 ELSE IF u = "not_ok" THEN Thrown(@, "users_status")
                 ELSE [@ EXCEPT !.kind = "created"]]
    /\ pc' = [pc EXCEPT ![p] = "done"]
    /\ UNCHANGED <<dbVarsButPc, domainMemo>>

\* encodeURIComponent of one character: the unreserved characters stand for
\* themselves, every other one becomes the %XX of its UTF-8 bytes.
PercentEncoded(c) ==
    IF c = "/" THEN <<"%", "2", "F">>
    ELSE IF c = "@" THEN <<"%", "4", "0">>
    ELSE IF c = " " THEN <<"%", "2", "0">>
    ELSE IF c = "+" THEN <<"%", "2", "B">>
    ELSE IF c = "&" THEN <<"%", "2", "6">>
    ELSE IF c = "=" THEN <<"%", "3", "D">>
    ELSE IF c = "?" THEN <<"%", "3", "F">>
    ELSE IF c = "%" THEN <<"%", "2", "5">>
    ELSE IF c = "é" THEN <<"%", "C", "3", "%", "A", "9">>
    ELSE <<c>>

RECURSIVE encodeURIComponent(_)
encodeURIComponent(s) ==
    IF s = <<>> THEN <<>>
    ELSE PercentEncoded(Head(s)) \o encodeURIComponent(Tail(s))

\* The redirect path as configured, without a '/' put before it.
PathAsConfigured(path) == path

\* `${redirectPath.startsWith('/') ? '' : '/'}${redirectPath}`
WithLeadingSlash(path) ==
    IF path # <<>> /\ Head(path) = "/" THEN path ELSE <<"/">> \o path

LoginPath == <<"/", ".", "a", "u", "t", "h", "/", "l", "o", "g", "i", "n", "/", "a", "a", "d", "?", "p", "o", "s", "t", "_", "l", "o", "g", "i", "n", "_", "r", "e", "d", "i", "r", "e", "c", "t", "_", "u", "r", "i", "=">>
LoginHintParam == <<"&", "l", "o", "g", "i", "n", "_", "h", "i", "n", "t", "=">>

\* const loginLink = `${baseUrl}/.auth/login/aad?post_login_redirect_uri=...&login_hint=...`
LoginLink(baseUrl, redirectPath, email) ==
    baseUrl \o LoginPath \o encodeURIComponent(WithLeadingSlash(redirectPath))
            \o LoginHintParam \o encodeURIComponent(email)

\* What Graph answers POST /invitations: the fetch throws, or responds with a
\* non-success or a success status; on success the body fails to parse, or is
\* an object with or without inviteRedeemUrl.
MkInviteResp(fetch, json, inviteRedeemUrl) ==
    [fetch |-> fetch, json |-> json, inviteRedeemUrl |-> inviteRedeemUrl]

RedeemUrl == <<"r", ".", "i", "o", "/", "x">>

InviteResps ==
    { MkInviteResp("throws", "none", Null),
      MkInviteResp("not_ok", "none", Null),
      MkInviteResp("ok", "throws", Null),
      MkInviteResp("ok", "object", RedeemUrl),
      MkInviteResp("ok", "object", Null),
      MkInviteResp("ok", "object", Empty) }

\* inviteExternalUserToEfmod(intake) is called: getAppTokenEfmod reads the
\* configuration and sends the token request.
InviteCall(p, intake) ==
    /\ pc[p] = "idle"
    /\ LET call == [IdleProvCall EXCEPT !.fn = "invite", !.intake = intake]
       IN IF getEfmodConfig(env).ok
          THEN /\ req' = [req EXCEPT ![p] = [call EXCEPT !.tokenReqs = 1]]
               /\ pc' = [pc EXCEPT ![p] = "await_token"]
          ELSE /\ req' = [req EXCEPT ![p] = Thrown(call, "efsmod_config_missing")]
               /\ pc' = [pc EXCEPT ![p] = "done"]
    /\ UNCHANGED <<dbVarsButPc, domainMemo>>

\* The token endpoint answers getAppTokenEfmod. With a token the email is
\* checked (lines 63-66) and POST /invitations is sent.
InviteToken(p, t) ==
    /\ pc[p] = "await_token"
    /\ req[p].fn = "invite"
    /\ LET tok == getAppTokenEfmod(env, [AllOk EXCEPT !.etoken = t])
           email == Trim(Or(req[p].intake.email, Empty))
       IN IF tok # "ok"
          THEN /\ req' = [req EXCEPT ![p] = Thrown([req[p] EXCEPT !.tokenAnswer = t], tok)]
               /\ pc' = [pc EXCEPT ![p] = "done"]
          ELSE IF email = Empty \/ ~Includes(email, "@")
          THEN /\ req' = [req EXCEPT ![p] = Thrown([req[p] EXCEPT !.tokenAnswer = t],
                                                   "invalid_email")]
               /\ pc' = [pc EXCEPT ![p] = "done"]
          ELSE /\ req' = [req EXCEPT ![p].email = email, ![p].inviteReqs = @ + 1,
                                     ![p].tokenAnswer = t]
               /\ pc' = [pc EXCEPT ![p] = "await_invite"]
    /\ UNCHANGED <<dbVarsButPc, domainMemo>>

\* Graph answers POST /invitations (lines 84-105).
InviteAnswer(p, r) ==
    /\ pc[p] = "await_invite"
    /\ LET cfg == getEfmodConfig(env)
           loginLink == LoginLink(cfg.baseUrl, cfg.redirectPath, req[p].email)
       IN req' = [req EXCEPT ![p] =
                    IF r.fetch = "throws" THEN Thrown(@, "invite_transport")
                    ELSE IF r.fetch = "not_ok" THEN Thrown(@, "invite_status")
                    ELSE IF r.json = "throws" THEN Thrown(@, "invite_body")
                    ELSE [@ EXCEPT !.kind = "invited",
                                   !.inviteRedeemUrl = r.inviteRedeemUrl,
                                   !.deepLink = Or(r.inviteRedeemUrl, loginLink),
                                   !.loginLink = loginLink]]
    /\ pc' = [pc EXCEPT ![p] = "done"]
    /\ UNCHANGED <<dbVarsButPc, domainMemo>>

TokenAnswers == {"throws", "not_ok", "no_token", "ok"}
DomainAnswers == {"throws", "not_ok", "no_domain", "ok"}
UsersAnswers == {"throws", "not_ok", "ok"}

ProvInit ==
    /\ DbInit(Procs, ProvEnvs)
    /\ tableExists
    /\ req = [p \in Procs |-> IdleProvCall]
    /\ domainMemo = Null

ProvNext ==
    \/ \E p \in Procs, intake \in ProvIntakes : CreateCall(p, intake)
    \/ \E p \in Procs, t \in TokenAnswers : CreateToken(p, t)
    \/ \E p \in Procs, d \in DomainAnswers : CreateDomain(p, d)
    \/ \E p \in Procs, u \in UsersAnswers : CreateUsers(p, u)
    \/ \E p \in Procs, intake \in ProvIntakes : InviteCall(p, intake)
    \/ \E p \in Procs, t \in TokenAnswers : InviteToken(p, t)
    \/ \E p \in Procs, r \in InviteResps : InviteAnswer(p, r)

SpecProv == ProvInit /\ [][ProvNext]_vars

\* The intake email is missing or malformed: absent, empty, or without '@'.
MissingOrMalformed(email) == email = Null \/ ~Includes(email, "@")

\* The domain of a composed userPrincipalName: the UPN_DOMAIN override, else
\* the tenant's verified domain.
UpnDomainOf(e) == IF e.upnDomain # Null THEN e.upnDomain ELSE TenantDomain

\* C11 as stated: createUserFromIntake fails with a validation error, and sends
\* no user-creation request to Graph, whenever the intake email is missing or
\* malformed (empty, or without '@').
C11_BadEmailFailsValidation ==
    \A p \in Procs :
        (req[p].fn = "create" /\ MissingOrMalformed(req[p].intake.email)) =>
            /\ req[p].usersReqs = 0
            /\ pc[p] = "done" => req[p].kind = "error"

\* C11 amended: createUserFromIntake does not validate the intake email. With
\* an email that is missing or malformed it fails only with a configuration,
\* token, domain or provider error; once the token and the domain are obtained
\* it sends one user-creation request, whose userPrincipalName is
\* mailNickname@domain with the mailNickname derived from the names.
C11_BadEmailStillCreates ==
    \A p \in Procs :
        (req[p].fn = "create" /\ MissingOrMalformed(req[p].intake.email)) =>
            /\ req[p].error \in {"ok", "credentials_missing", "token_transport",
                                 "token_status", "token_missing", "domain_transport",
                                 "domain_status", "no_verified_domain",
                                 "users_transport", "users_status"}
            /\ (pc[p] = "done" /\ req[p].error \in {"ok", "users_transport",
                                                     "users_status"})
                  => req[p].usersReqs = 1
            /\ pc[p] = "await_users" => req[p].usersReqs = 1
            /\ req[p].usersReqs = 1 =>
                  /\ req[p].userPrincipalName =
                        req[p].mailNickname \o <<"@">> \o UpnDomainOf(env)
                  /\ ~Includes(req[p].mailNickname, "@")
                  /\ req[p].mailNickname # Empty

\* An intake without email, first name "Aé", was created as Ae@t.o.
C11_Witness ==
    \E p \in Procs :
        /\ pc[p] = "done"
        /\ req[p].fn = "create"
        /\ req[p].kind = "created"
        /\ req[p].intake.email = Null
        /\ req[p].usersReqs = 1
        /\ req[p].userPrincipalName = <<"A", "e", "@", "t", ".", "o">>

\* C12: in createUserFromIntake, whenever the intake carries an email
\* containing '@', the userPrincipalName sent to Graph is that email verbatim
\* (trimmed); only when the intake has no such email is it composed as
\* mailNickname@domain, with domain the UPN_DOMAIN override or the discovered
\* verified domain.
C12_UpnIsEmailVerbatim ==
    \A p \in Procs :
        (req[p].fn = "create" /\ req[p].usersReqs > 0) =>
            IF ~MissingOrMalformed(req[p].intake.email)
            THEN req[p].userPrincipalName = Trim(req[p].intake.email)
            ELSE req[p].userPrincipalName =
                     req[p].mailNickname \o <<"@">> \o UpnDomainOf(env)

(***************************************************************************)
(* generateInitialPassword (config/msgraph-account.js:101-111).            *)
(***************************************************************************)
upper ==
    <<"A", "B", "C", "D", "E", "F", "G", "H", "J", "K", "L", "M",
       "N", "P", "Q", "R", "S", "T", "U", "V", "W", "X", "Y", "Z">>
lower ==
    <<"a", "b", "c", "d", "e", "f", "g", "h", "i", "j", "k", "m",
       "n", "o", "p", "q", "r", "s", "t", "u", "v", "w", "x", "y",
       "z">>
nums == <<"2", "3", "4", "5", "6", "7", "8", "9">>
special ==
    <<"!", "@", "#", "$", "%", "^", "&", "*", "(", ")", "-", "_",
       "=", "+", "[", "]", "{", "}">>
all == upper \o lower \o nums \o special

\* rand(n, set): the characters at the n drawn indexes; an index is
\* Math.floor(Math.random() * set.length) + 1, any of 1..set.length.
rand(set, drawn) == [i \in 1..Len(drawn) |-> set[drawn[i]]]

\* The outcomes of the four draws of rand(4, set) that are considered: the
\* first character four times, the last four times, and the two ends.
DrawSamples(set) ==
    { <<1, 1, 1, 1>>, <<Len(set), Len(set), Len(set), Len(set)>>,
      <<1, 2, Len(set) - 1, Len(set)>> }

\* The draws of rand(4, all) that are considered: four of one class, for each
\* of the classes, and one of each class.
DrawSamplesAll ==
    { <<1, 1, 1, 1>>,
      <<Len(upper) + 1, Len(upper) + 2, Len(upper) + 1, Len(upper) + Len(lower)>>,
      <<Len(upper) + Len(lower) + 1, Len(upper) + Len(lower) + 1,
        Len(upper) + Len(lower) + Len(nums), Len(upper) + Len(lower) + 2>>,
      <<Len(all), Len(all), Len(all) - 1, Len(all)>>,
      <<Len(upper), Len(upper) + Len(lower), Len(upper) + Len(lower) + Len(nums),
        Len(all)>> }

\* The orders .sort(() => 0.5 - Math.random()) may leave n characters in: the
\* order is a permutation of 1..n, here the identity, the reversal and the
\* rotations by a multiple of four.
Rotation(n, k) == [i \in 1..n |-> ((i + k - 1) % n) + 1]

ShuffleSamples(n) ==
    { [i \in 1..n |-> i], [i \in 1..n |-> n + 1 - i] }
    \cup { Rotation(n, k) : k \in {4, 8, 12, 16} }

\* .slice(0, 20)
PasswordMax == 20

\* A password cut to 16 characters.
CutToSixteen(base, order) ==
    SliceTo([i \in 1..Len(base) |-> base[order[i]]], 16)

\* base.split('').sort(...).join('').slice(0, 20)
ShuffleAndCut(base, order) ==
    SliceTo([i \in 1..Len(base) |-> base[order[i]]], PasswordMax)

\* The one call of the function that is followed.
OneCall == {1}

IdlePassword == [base |-> <<>>, password |-> <<>>]

\* rand(n, set) is appended to base.
AppendRand(set, drawn, to) ==
    /\ req' = [req EXCEPT ![1].base = @ \o rand(set, drawn)]
    /\ pc' = [pc EXCEPT ![1] = to]
    /\ UNCHANGED <<dbVarsButPc, domainMemo>>

\* rand(4, upper) + rand(4, lower) + rand(4, nums) + rand(4, special) + rand(4, all)
RandUpper(drawn) ==
    /\ pc[1] = "idle"
    /\ AppendRand(upper, drawn, "rand_lower")

RandLower(drawn) ==
    /\ pc[1] = "rand_lower"
    /\ AppendRand(lower, drawn, "rand_nums")

RandNums(drawn) ==
    /\ pc[1] = "rand_nums"
    /\ AppendRand(nums, drawn, "rand_special")

RandSpecial(drawn) ==
    /\ pc[1] = "rand_special"
    /\ AppendRand(special, drawn, "rand_all")

RandAll(drawn) ==
    /\ pc[1] = "rand_all"
    /\ AppendRand(all, drawn, "shuffle")

\* The shuffle and the cut: the password is returned.
Shuffle ==
    /\ pc[1] = "shuffle"
    /\ \E order \in ShuffleSamples(Len(req[1].base)) :
          req' = [req EXCEPT ![1].password = ShuffleAndCut(req[1].base, order)]
    /\ pc' = [pc EXCEPT ![1] = "done"]
    /\ UNCHANGED <<dbVarsButPc, domainMemo>>

PasswordInit ==
    /\ DbInit(OneCall, {MkEnv(FALSE, FALSE, TRUE)})
    /\ tableExists
    /\ req = [p \in OneCall |-> IdlePassword]
    /\ domainMemo = Null

PasswordNext ==
    \/ \E drawn \in DrawSamples(upper) : RandUpper(drawn)
    \/ \E drawn \in DrawSamples(lower) : RandLower(drawn)
    \/ \E drawn \in DrawSamples(nums) : RandNums(drawn)
    \/ \E drawn \in DrawSamples(special) : RandSpecial(drawn)
    \/ \E drawn \in DrawSamplesAll : RandAll(drawn)
    \/ Shuffle

SpecPassword == PasswordInit /\ [][PasswordNext]_vars

\* How many characters of s are characters of the character set.
CountOf(s, set) ==
    Cardinality({ i \in 1..Len(s) : \E j \in 1..Len(set) : s[i] = set[j] })

\* C13: every password returned by generateInitialPassword, for every outcome
\* of the random choices and of the shuffle, has a length between 16 and 20
\* inclusive and contains at least 4 uppercase, 4 lowercase, 4 digit and 4
\* special characters from the fixed character sets.
C13_PasswordComplexity ==
    pc[1] = "done" =>
        /\ Len(req[1].password) >= 16
        /\ Len(req[1].password) <= 20
        /\ CountOf(req[1].password, upper) >= 4
        /\ CountOf(req[1].password, lower) >= 4
        /\ CountOf(req[1].password, nums) >= 4
        /\ CountOf(req[1].password, special) >= 4

\* A returned password whose last four characters are uppercase letters and
\* that holds eight digits: the shuffle moved the first draws to the end.
C13_Witness ==
    /\ pc[1] = "done"
    /\ req[1].password # req[1].base
    /\ \A i \in 17..20 : \E j \in 1..Len(upper) : req[1].password[i] = upper[j]
    /\ CountOf(req[1].password, nums) = 8

(***************************************************************************)
(* makeMailNickname called on its own (config/msgraph-account.js:77-90).   *)
(***************************************************************************)
\* n times the character c
Repeat(c, n) == [i \in 1..n |-> c]

\* The first and last names considered: absent, empty, plain, accented, with
\* and of forbidden characters only, and longer than the maximum.
FirstNameSamples ==
    { Null, Empty, <<"J", "o", "s", "é">>, <<"!", " ">>, <<"A", "-", "1">>,
      Repeat("b", NicknameMax + 6) }

LastNameSamples == { Null, Empty, <<"L", "_", "é">>, <<"#">> }

\* The emails considered: absent, empty, without '@', with a plain, an empty,
\* a forbidden and an accented local part, one longer than the maximum, and
\* one whose 64th and 65th code units are the two halves of a letter.
EmailSamples ==
    { Null, Empty, <<"a", "x">>,
      <<"j", ".", "d", "@", "x", ".", "o">>,
      <<"@", "x">>,
      <<" ", "!", "@", "x">>,
      <<" ", "é", "+", "1", "@", "x", "@", "y">>,
      Repeat("a", NicknameMax + 6) \o <<"@", "x">>,
      Repeat("a", NicknameMax - 1) \o <<HighSurrogate, LowSurrogate, "@", "x">> }

IdleNickname ==
    [called |-> FALSE, firstName |-> Null, lastName |-> Null, email |-> Null,
     mailNickname |-> Null]

\* makeMailNickname({ firstName, lastName, email }) is called and returns.
MailNicknameCall(firstName, lastName, email) ==
    /\ pc[1] = "idle"
    /\ req' = [req EXCEPT ![1] =
                 [called |-> TRUE, firstName |-> firstName, lastName |-> lastName,
                  email |-> email,
                  mailNickname |-> makeMailNickname(firstName, lastName, email)]]
    /\ pc' = [pc EXCEPT ![1] = "done"]
    /\ UNCHANGED <<dbVarsButPc, domainMemo>>

NicknameInit ==
    /\ DbInit(OneCall, {MkEnv(FALSE, FALSE, TRUE)})
    /\ tableExists
    /\ req = [p \in OneCall |-> IdleNickname]
    /\ domainMemo = Null

NicknameNext ==
    \E firstName \in FirstNameSamples, lastName \in LastNameSamples,
       email \in EmailSamples : MailNicknameCall(firstName, lastName, email)

SpecNickname == NicknameInit /\ [][NicknameNext]_vars

\* The code unit at position i of s is a letter, a digit, '.', '_' or '-', or
\* one half of the surrogate pair of a letter.
AllowedAt(s, i) ==
    \/ s[i] \in Letters \cup Digits \cup {".", "_", "-"}
    \/ s[i] = HighSurrogate /\ i < Len(s) /\ s[i + 1] = LowSurrogate
    \/ s[i] = LowSurrogate /\ i > 1 /\ s[i - 1] = HighSurrogate

\* What the nickname is derived from: the local part of an email with '@',
\* else the present names joined by '.'.
NicknameSource(firstName, lastName, email) ==
    IF email # Null /\ Includes(email, "@") THEN BeforeAt(email)
    ELSE JoinNames(firstName, lastName, ".")

\* The allowed characters of s, in order, accents decomposed.
AllowedPart(s) == StripForbidden(NormalizeNFKD(s))

\* C14: for every input {firstName, lastName, email}, makeMailNickname returns
\* a non-empty string of at most 64 characters that contains only letters,
\* digits, '.', '_' and '-': the sanitized local part of the email when the
\* email contains '@', otherwise the sanitized 'first.last' join of the present
\* names, and exactly "user" whenever sanitization leaves nothing.
C14_MailNicknameIsSanitized ==
    pc[1] = "done" =>
        LET nick == req[1].mailNickname
            kept == AllowedPart(NicknameSource(req[1].firstName, req[1].lastName,
                                               req[1].email))
        IN /\ nick # Empty
           /\ Len(nick) <= 64
           /\ \A i \in 1..Len(nick) : AllowedAt(nick, i)
           /\ kept = Empty => nick = <<"u", "s", "e", "r">>
           /\ kept # Empty => nick = SubSeq(kept, 1, Len(nick))
           /\ (kept # Empty /\ Len(kept) <= 64) => nick = kept

\* The email of the intake is empty after trimming or has no '@'.
InvalidInviteEmail(intake) ==
    LET email == Trim(Or(intake.email, Empty))
    IN email = Empty \/ ~Includes(email, "@")

\* C15: a call of inviteExternalUserToEfmod whose email is empty after
\* trimming or contains no '@' never sends a request to the invitations
\* endpoint, and when it has settled it has failed with the validation error.
C15_InvalidEmailFailsValidation ==
    \A p \in Procs :
        (req[p].fn = "invite" /\ InvalidInviteEmail(req[p].intake)) =>
            /\ req[p].inviteReqs = 0
            /\ pc[p] = "done" => (req[p].kind = "error" /\ req[p].error = "invalid_email")

\* ---------------------------------------------------------------------------
\* Reading a URL: the part before '?', and the decoded value of a query
\* parameter.

\* The least position from `from` on at which s has c, else 0.
IndexFrom(s, c, from) ==
    LET hits == { i \in from..Len(s) : s[i] = c }
    IN IF hits = {} THEN 0 ELSE CHOOSE i \in hits : \A j \in hits : i <= j

BeforeQuery(url) ==
    IF IndexFrom(url, "?", 1) = 0 THEN url
    ELSE SubSeq(url, 1, IndexFrom(url, "?", 1) - 1)

QueryOf(url) ==
    IF IndexFrom(url, "?", 1) = 0 THEN Empty
    ELSE SubSeq(url, IndexFrom(url, "?", 1) + 1, Len(url))

\* The raw value of the first `name=value` among the '&'-separated parts of
\* the query, Null when there is none.
ParamValue(query, name) ==
    LET starts == {1} \cup { i + 1 : i \in { j \in 1..Len(query) : query[j] = "&" } }
        endOf(a) == IF IndexFrom(query, "&", a) = 0 THEN Len(query)
                    ELSE IndexFrom(query, "&", a) - 1
        named == { a \in starts :
                     /\ a + Len(name) <= Len(query)
                     /\ SubSeq(query, a, a + Len(name) - 1) = name
                     /\ query[a + Len(name)] = "=" }
    IN IF named = {} THEN Null
       ELSE LET a == CHOOSE a \in named : \A b \in named : a <= b
            IN SubSeq(query, a + Len(name) + 1, endOf(a))

Escaped == {"/", "@", " ", "+", "&", "=", "?", "%", "é"}

\* decodeURIComponent: every %XX escape is read back as its character.
RECURSIVE PercentDecoded(_)
PercentDecoded(s) ==
    IF s = <<>> THEN <<>>
    ELSE IF \E c \in Escaped : Len(s) >= Len(PercentEncoded(c))
                               /\ SubSeq(s, 1, Len(PercentEncoded(c))) = PercentEncoded(c)
    THEN LET c == CHOOSE c \in Escaped :
                    /\ Len(s) >= Len(PercentEncoded(c))
                    /\ SubSeq(s, 1, Len(PercentEncoded(c))) = PercentEncoded(c)
         IN <<c>> \o PercentDecoded(SubSeq(s, Len(PercentEncoded(c)) + 1, Len(s)))
    ELSE <<Head(s)>> \o PercentDecoded(Tail(s))

AadLoginPath == <<"/", ".", "a", "u", "t", "h", "/", "l", "o", "g", "i", "n", "/", "a", "a", "d">>
PostLoginRedirectUri == <<"p", "o", "s", "t", "_", "l", "o", "g", "i", "n", "_", "r", "e", "d", "i", "r", "e", "c", "t", "_", "u", "r", "i">>
LoginHint == <<"l", "o", "g", "i", "n", "_", "h", "i", "n", "t">>

\* The call of p has settled with an invitation.
Invited(p) == pc[p] = "done" /\ req[p].fn = "invite" /\ req[p].kind = "invited"

\* C16: on a successful invitation the deepLink is the provider-issued
\* inviteRedeemUrl when there is one; otherwise it is the login link
\* baseUrl/.auth/login/aad whose post_login_redirect_uri parameter is the
\* configured redirect path with a leading '/' and whose login_hint parameter
\* is the invited (trimmed) email.
C16_DeepLinkPrefersRedeemUrl ==
    \A p \in Procs :
        Invited(p) =>
            LET cfg == getEfmodConfig(env)
                link == req[p].deepLink
                path == cfg.redirectPath
            IN IF Truthy(req[p].inviteRedeemUrl)
               THEN link = req[p].inviteRedeemUrl
               ELSE /\ BeforeQuery(link) = cfg.baseUrl \o AadLoginPath
                    /\ PercentDecoded(ParamValue(QueryOf(link), PostLoginRedirectUri))
                         = IF path # <<>> /\ path[1] = "/" THEN path ELSE <<"/">> \o path
                    /\ PercentDecoded(ParamValue(QueryOf(link), LoginHint))
                         = Trim(req[p].intake.email)

\* Two invitations have succeeded under a redirect path configured without a
\* leading '/': one with a redeem URL from the provider, which is its deep
\* link, and one without, whose deep link is the login link.
C16_Witness ==
    /\ env.efsmod.redirectPath # Null
    /\ Head(env.efsmod.redirectPath) # "/"
    /\ \E p \in Procs : Invited(p) /\ req[p].deepLink = RedeemUrl
    /\ \E p \in Procs :
          /\ Invited(p)
          /\ ~Truthy(req[p].inviteRedeemUrl)
          /\ req[p].deepLink = req[p].loginLink
          /\ Includes(req[p].deepLink, "?")

\* What a call must have done about its token, given whether its settings
\* count as absent: nothing but fail with the configuration error when they
\* are absent; otherwise exactly one token request, and a failure with the
\* matching error, nothing requested of Graph, once the token endpoint has
\* thrown, answered a non-success status or answered without access_token.
TokenProtocol(call, settled, absent, configError) ==
    IF absent
    THEN /\ call.tokenReqs = 0
         /\ settled
         /\ call.kind = "error"
         /\ call.error = configError
    ELSE /\ call.tokenReqs = 1
         /\ call.tokenAnswer = "throws" =>
              (settled /\ call.kind = "error" /\ call.error = "token_transport")
         /\ call.tokenAnswer = "not_ok" =>
              (settled /\ call.kind = "error" /\ call.error = "token_status")
         /\ call.tokenAnswer = "no_token" =>
              (settled /\ call.kind = "error" /\ call.error = "token_missing")
         /\ call.tokenAnswer # "ok" =>
              (call.orgReqs = 0 /\ call.usersReqs = 0 /\ call.inviteReqs = 0)

\* Tenant id, client id or client secret of the settings is absent.
CredentialAbsent(settings) ==
    ~(settings.tenantId /\ settings.clientId /\ settings.clientSecret)

\* C17 (as stated): getAppToken and getAppTokenEfmod fail with a configuration
\* error, sending no HTTP request, whenever tenant id, client id or client
\* secret is absent; otherwise every invocation sends exactly one token
\* request (none reused, none retried) and fails if the response is
\* non-success or lacks access_token.
C17_TokenNeedsOnlyCredentials ==
    \A p \in Procs :
        /\ req[p].fn = "create" =>
             TokenProtocol(req[p], pc[p] = "done", CredentialAbsent(env.graph),
                           "credentials_missing")
        /\ req[p].fn = "invite" =>
             TokenProtocol(req[p], pc[p] = "done", CredentialAbsent(env.efsmod),
                           "efsmod_config_missing")

\* C17 (amended): as stated for getAppToken; getAppTokenEfmod fails with the
\* configuration error, sending no HTTP request, also when the EFSMOD base
\* URL is absent, and sends exactly one token request per invocation only
\* when tenant id, client id, client secret and base URL are all present.
C17_EfmodTokenNeedsBaseUrlToo ==
    \A p \in Procs :
        /\ req[p].fn = "create" =>
             TokenProtocol(req[p], pc[p] = "done", CredentialAbsent(env.graph),
                           "credentials_missing")
        /\ req[p].fn = "invite" =>
             TokenProtocol(req[p], pc[p] = "done",
                           CredentialAbsent(env.efsmod) \/ ~Truthy(env.efsmod.baseUrl),
                           "efsmod_config_missing")

\* With the Graph client secret and the EFSMOD base URL absent, one call of
\* each function has failed with its configuration error without a request.
C17_Witness ==
    /\ CredentialAbsent(env.graph)
    /\ ~CredentialAbsent(env.efsmod)
    /\ \E p \in Procs : /\ req[p].fn = "create" /\ pc[p] = "done"
                        /\ req[p].error = "credentials_missing" /\ req[p].tokenReqs = 0
    /\ \E p \in Procs : /\ req[p].fn = "invite" /\ pc[p] = "done"
                        /\ req[p].error = "efsmod_config_missing" /\ req[p].tokenReqs = 0

\* With every setting present two invocations have each sent their own token
\* request: one got a token and went on, one was refused and was not retried.
C17_EachInvocationAuthenticates ==
    /\ ~CredentialAbsent(env.graph)
    /\ \E p, q \in Procs :
          /\ req[p].tokenReqs = 1 /\ req[p].tokenAnswer = "ok" /\ req[p].kind # "error"
          /\ req[q].tokenReqs = 1 /\ req[q].tokenAnswer = "not_ok"
          /\ pc[q] = "done" /\ req[q].error = "token_status"

(***************************************************************************)
(* Concurrent upserts on a table that already holds rows of earlier calls. *)
(***************************************************************************)
\* The row an earlier upsertIntakeForm call for u inserted, at time 0.
StoredRow(id, u) ==
    InsertRow(id, MkForm(u, <<"s", "@", "x">>, <<"S">>, Null, Null, <<"T">>), 0)

\* The table as earlier calls left it: empty, one user's row, or both users'.
StoredTables ==
    { {}, {StoredRow(1, U1)}, {StoredRow(1, U2)}, {StoredRow(1, U1), StoredRow(2, U2)} }

StoredInit ==
    /\ env = MkEnv(FALSE, FALSE, TRUE)
    /\ pool = "none"
    /\ conns = <<>>
    /\ tableExists \in BOOLEAN
    /\ table \in (IF tableExists THEN StoredTables ELSE {{}})
    /\ nextId = Cardinality(table) + 1
    /\ clock = 0
    /\ pc = [p \in Procs |-> "idle"]
    /\ form = [p \in Procs |-> NoForm]
    /\ now = [p \in Procs |-> 0]
    /\ found = [p \in Procs |-> FALSE]
    /\ committed = [u \in Users |->
                      IF RowsOf(table, u) = {} THEN NoForm
                      ELSE RowForm(CHOOSE r \in RowsOf(table, u) : TRUE)]
    /\ dbWrites = [p \in Procs |-> 0]
    /\ req = [p \in Procs |-> NoReq]
    /\ domainMemo = Null

SpecStored == StoredInit /\ [][Next]_vars

\* C19: a step of an upsertIntakeForm call for one userId (its existence
\* check, its INSERT or UPDATE, its return or throw) leaves the rows of every
\* other userId as they were, none inserted, updated or removed, however the
\* steps of calls for different users interleave.
C19_OtherUsersRowsUnchanged ==
    [][\A p \in Procs :
          pc'[p] # pc[p] =>
              \A u \in Users \ {form'[p].userId} : RowsOf(table', u) = RowsOf(table, u)]_vars

\* Two calls for different users have both written, one of them updating its
\* user's stored row, and each user's row holds what the call for it wrote.
C19_Witness ==
    \E p, q \in Procs :
        /\ form[p].userId # form[q].userId
        /\ pc[p] = "returned" /\ pc[q] = "returned"
        /\ found[p]
        /\ \E r \in RowsOf(table, form[p].userId) :
              RowForm(r) = form[p] /\ r.UpdatedAt # r.CreatedAt
        /\ \E r \in RowsOf(table, form[q].userId) : RowForm(r) = form[q]

(***************************************************************************)
(* getPool step by step (config/database.js:63-83): callers' awaits         *)
(* interleave, and a pool object may emit 'error' at any time.             *)
(***************************************************************************)
\* let pool = null
NoPool == 0

\* A pool object sql.connect resolved with: its `connected` property, the
\* number of 'error' listeners registered on it, whether close() was called
\* on it, whether a listener of it threw, whether it has emitted 'error',
\* and the value of the module pool its listener found the last time it ran.
NewPool ==
    [connected |-> TRUE, handlers |-> 0, closed |-> FALSE, handlerThrew |-> FALSE,
     emitted |-> FALSE, found |-> NoPool]

\* A getPool call: the module pool it found on entry and whether that
\* reported connected, the tokens and connections it asked for, the pool it
\* returned and the error it threw.
IdlePoolCall ==
    [seen |-> NoPool, seenConnected |-> FALSE, tokenAcqs |-> 0, connects |-> 0,
     returned |-> NoPool, error |-> "ok"]

\* getPool up to its first pending await (lines 64-74, 40-44, 23-32, 59-61):
\* the connected pool is returned; else the configuration is checked and
\* sql.connect is called with the connection string, or getAccessToken
\* returns null without managed-identity settings, or asks for a token.
Enter(call, pl, cs, e) ==
    IF pl # NoPool /\ cs[pl].connected
    THEN [call |-> [call EXCEPT !.returned = pl], pc |-> "done"]
    ELSE IF ~e.server /\ ~e.connString
    THEN [call |-> [call EXCEPT !.error = "config_error"], pc |-> "done"]
    ELSE IF e.connString
    THEN [call |-> [call EXCEPT !.connects = @ + 1], pc |-> "await_connect"]
    ELSE IF ~hasManagedIdentityConfig(e)
    THEN [call |-> [call EXCEPT !.error = "token_error"], pc |-> "done"]
    ELSE [call |-> [call EXCEPT !.tokenAcqs = @ + 1], pc |-> "await_token"]

\* getPool() is called.
PoolCall(p) ==
    /\ pc[p] = "idle"
    /\ LET call == [IdlePoolCall EXCEPT
                      !.seen = pool,
                      !.seenConnected = (pool # NoPool /\ conns[pool].connected)]
           next == Enter(call, pool, conns, env)
       IN /\ req' = [req EXCEPT ![p] = next.call]
          /\ pc' = [pc EXCEPT ![p] = next.pc]
    /\ UNCHANGED <<env, pool, conns, tableExists, table, nextId, clock, form, now,
                   found, committed, dbWrites, domainMemo>>

\* credential.getToken settles (lines 32-37, 41-56): without a token the call
\* throws, with one sql.connect is called.
PoolToken(p, tokenOk) ==
    /\ pc[p] = "await_token"
    /\ IF tokenOk
       THEN /\ req' = [req EXCEPT ![p].connects = @ + 1]
            /\ pc' = [pc EXCEPT ![p] = "await_connect"]
       ELSE /\ req' = [req EXCEPT ![p].error = "token_error"]
            /\ pc' = [pc EXCEPT ![p] = "done"]
    /\ UNCHANGED <<env, pool, conns, tableExists, table, nextId, clock, form, now,
                   found, committed, dbWrites, domainMemo>>

\* sql.connect settles (lines 72-82): a rejection is thrown on; a pool object
\* is assigned to the module pool, gets its 'error' listener and is returned.
PoolConnect(p, connectOk) ==
    /\ pc[p] = "await_connect"
    /\ IF connectOk
       THEN /\ conns' = Append(conns, [NewPool EXCEPT !.handlers = 1])
            /\ pool' = Len(conns) + 1
            /\ req' = [req EXCEPT ![p].returned = Len(conns) + 1]
       ELSE /\ req' = [req EXCEPT ![p].error = "connect_error"]
            /\ UNCHANGED <<pool, conns>>
    /\ pc' = [pc EXCEPT ![p] = "done"]
    /\ UNCHANGED <<env, tableExists, table, nextId, clock, form, now, found,
                   committed, dbWrites, domainMemo>>

\* An 'error' listener that closes the pool but keeps the module pool.
PoolErrorKeepsPool(i) ==
    /\ i \in 1..Len(conns)
    /\ conns[i].handlers > 0
    /\ IF pool # NoPool
       THEN conns' = [conns EXCEPT ![pool].closed = TRUE, ![pool].connected = FALSE]
       ELSE conns' = [conns EXCEPT ![i].handlerThrew = TRUE]
    /\ UNCHANGED <<env, pool, tableExists, table, nextId, clock, pc, form, now,
                   found, committed, dbWrites, httpVars>>

\* Pool object i emits 'error' and its listener runs (lines 76-80): close()
\* is called on the module pool, which throws when that is null, and the
\* module pool is set to null.
PoolError(i) ==
    /\ i \in 1..Len(conns)
    /\ conns[i].handlers > 0
    /\ IF pool # NoPool
       THEN /\ conns' = [conns EXCEPT ![pool].closed = TRUE, ![pool].connected = FALSE,
                                      ![i].emitted = TRUE, ![i].found = pool]
            /\ pool' = NoPool
       ELSE /\ conns' = [conns EXCEPT ![i].handlerThrew = TRUE, ![i].emitted = TRUE,
                                      ![i].found = NoPool]
            /\ UNCHANGED pool
    /\ UNCHANGED <<env, tableExists, table, nextId, clock, pc, form, now, found,
                   committed, dbWrites, httpVars>>

PoolInit ==
    /\ env \in Envs
    /\ pool = NoPool
    /\ conns = <<>>
    /\ tableExists = TRUE
    /\ table = {}
    /\ nextId = 1
    /\ clock = 0
    /\ pc = [p \in Procs |-> "idle"]
    /\ form = [p \in Procs |-> NoForm]
    /\ now = [p \in Procs |-> 0]
    /\ found = [p \in Procs |-> FALSE]
    /\ committed = [u \in Users |-> NoForm]
    /\ dbWrites = [p \in Procs |-> 0]
    /\ req = [p \in Procs |-> IdlePoolCall]
    /\ domainMemo = Null

PoolNext ==
    \/ \E p \in Procs : PoolCall(p)
    \/ \E p \in Procs, tokenOk \in BOOLEAN : PoolToken(p, tokenOk)
    \/ \E p \in Procs, connectOk \in BOOLEAN : PoolConnect(p, connectOk)
    \/ \E i \in Procs : PoolError(i)

SpecPool == PoolInit /\ [][PoolNext]_vars

\* Neither authentication mode's prerequisites are complete: no connection
\* string, and SQL_SERVER and SQL_DATABASE not both set.
NoModeComplete(e) == ~e.connString /\ ~(e.server /\ e.database)

\* C18: in every environment where SQL_CONNECTION_STRING is unset and
\* SQL_SERVER and SQL_DATABASE are not both set, a getPool call fails with the
\* configuration error and asks for no connection and no token.
C18_IncompleteConfigIsConfigError ==
    NoModeComplete(env) =>
        \A p \in Procs :
            pc[p] # "idle" =>
                /\ pc[p] = "done"
                /\ req[p].error = "config_error"
                /\ req[p].connects = 0
                /\ req[p].tokenAcqs = 0

\* The calls that have returned a pool they opened themselves.
Openers == { p \in Procs : pc[p] = "done" /\ req[p].error = "ok" /\ req[p].connects = 1 }

\* C20: no pool exists before the first getPool call, and every pool object
\* was opened by a call; a call that finds the module pool connected returns
\* that very pool and opens nothing; whenever a pool object's 'error' listener
\* has run the module pool is null; and a call that finds the module pool null
\* returns only a pool it has opened itself by one new connection.
C20_LazySharedPoolReopenedAfterError ==
    /\ [](/\ (\A p \in Procs : pc[p] = "idle") => (pool = NoPool /\ conns = <<>>)
          /\ Len(conns) = Cardinality(Openers)
          /\ \A p \in Procs :
               /\ req[p].seenConnected =>
                    /\ pc[p] = "done"
                    /\ req[p].error = "ok"
                    /\ req[p].returned = req[p].seen
                    /\ req[p].connects = 0
                    /\ req[p].tokenAcqs = 0
               /\ (pc[p] = "done" /\ req[p].error = "ok" /\ req[p].seen = NoPool) =>
                    /\ req[p].connects = 1
                    /\ req[p].returned \in 1..Len(conns)
                    /\ \A q \in Procs \ {p} : req[q].returned = req[p].returned =>
                                                req[q].seen = req[p].returned)
    /\ [][(Len(conns') = Len(conns) /\ conns' # conns) => pool' = NoPool]_vars

\* The first call opened a pool; the pool emitted 'error' and was closed and
\* discarded; the next call found no pool and opened a second one, which is
\* the module pool now.
C20_Witness ==
    \E p, q \in Procs :
        /\ pc[p] = "done" /\ req[p].returned = 1
        /\ conns[1].closed /\ ~conns[1].connected
        /\ pc[q] = "done" /\ req[q].seen = NoPool /\ req[q].returned = 2
        /\ pool = 2
        /\ conns[2].connected

\* A later call found the first call's pool connected and returned it.
C20_Reused ==
    \E p, q \in Procs :
        /\ pc[p] = "done" /\ req[p].connects = 1 /\ req[p].returned = 1
        /\ pc[q] = "done" /\ req[q].seenConnected /\ req[q].returned = 1
        /\ Len(conns) = 1

(***************************************************************************)
(* fetchDefaultVerifiedDomain step by step (msgraph-account.js:113-134):   *)
(* calls of concurrent createUserFromIntake invocations interleave at the  *)
(* await of the organization request.                                      *)
(***************************************************************************)
\* An entry of verifiedDomains.
MkDomain(name, isDefault, isInitial, isVerified) ==
    [name |-> name, isDefault |-> isDefault, isInitial |-> isInitial,
     isVerified |-> isVerified]

\* undefined, as Array.prototype.find returns it.
NoDomain == MkDomain(Null, FALSE, FALSE, FALSE)

\* domains.find(d => d[flag])
FindDomain(domains, flag) ==
    LET hits == { i \in 1..Len(domains) : domains[i][flag] }
    IN IF hits = {} THEN NoDomain
       ELSE domains[CHOOSE i \in hits : \A j \in hits : i <= j]

\* A selection that takes the first verified domain whatever its other flags.
FirstVerifiedDomain(domains) == FindDomain(domains, "isVerified")

\* domains.find(d => d.isDefault) || domains.find(d => d.isInitial) || domains.find(d => d.isVerified)
PreferredDomain(domains) ==
    IF FindDomain(domains, "isDefault") # NoDomain THEN FindDomain(domains, "isDefault")
    ELSE IF FindDomain(domains, "isInitial") # NoDomain THEN FindDomain(domains, "isInitial")
    ELSE FindDomain(domains, "isVerified")

\* What Graph answers GET /organization: the fetch throws, or responds with a
\* non-success or a success status; on success the body fails to parse, or is
\* an object whose `value` is or is not an array of organizations, each with
\* or without verifiedDomains.
MkOrg(hasDomains, verifiedDomains) ==
    [hasDomains |-> hasDomains, verifiedDomains |-> verifiedDomains]

MkOrgResp(fetch, json, isArray, value) ==
    [fetch |-> fetch, json |-> json, isArray |-> isArray, value |-> value]

NoOrgResp == MkOrgResp("none", "none", FALSE, <<>>)

OrgOf(domains) == MkOrgResp("ok", "object", TRUE, <<MkOrg(TRUE, domains)>>)

InitialDomain == <<"i", ".", "o">>
VerifiedDomain == <<"v", ".", "o">>

OrgResps ==
    { MkOrgResp("throws", "none", FALSE, <<>>),
      MkOrgResp("not_ok", "none", FALSE, <<>>),
      MkOrgResp("ok", "throws", FALSE, <<>>),
      MkOrgResp("ok", "object", FALSE, <<>>),
      MkOrgResp("ok", "object", TRUE, <<>>),
      MkOrgResp("ok", "object", TRUE, <<MkOrg(FALSE, <<>>)>>),
      OrgOf(<<>>),
      OrgOf(<<MkDomain(InitialDomain, FALSE, TRUE, TRUE),
              MkDomain(TenantDomain, TRUE, FALSE, TRUE),
              MkDomain(VerifiedDomain, FALSE, FALSE, TRUE)>>),
      OrgOf(<<MkDomain(VerifiedDomain, FALSE, FALSE, TRUE),
              MkDomain(InitialDomain, FALSE, TRUE, FALSE)>>),
      OrgOf(<<MkDomain(<<"u", ".", "o">>, FALSE, FALSE, FALSE),
              MkDomain(VerifiedDomain, FALSE, FALSE, TRUE)>>),
      OrgOf(<<MkDomain(<<"u", ".", "o">>, FALSE, FALSE, FALSE)>>),
      OrgOf(<<MkDomain(Null, TRUE, FALSE, TRUE),
              MkDomain(InitialDomain, FALSE, TRUE, TRUE)>>),
      OrgOf(<<MkDomain(Empty, FALSE, TRUE, TRUE),
              MkDomain(VerifiedDomain, FALSE, FALSE, TRUE)>>) }

\* const org = Array.isArray(json.value) ? json.value[0] : null;
\* const domains = org?.verifiedDomains || [];
OrgDomains(r) ==
    IF r.isArray /\ r.value # <<>> /\ r.value[1].hasDomains
    THEN r.value[1].verifiedDomains
    ELSE <<>>

\* Lines 120-133 on the response r: the error thrown, or the name chosen.
DomainOutcome(r) ==
    IF r.fetch = "throws" THEN [error |-> "domain_transport", name |-> Null]
    ELSE IF r.fetch = "not_ok" THEN [error |-> "domain_status", name |-> Null]
    ELSE IF r.json = "throws" THEN [error |-> "domain_body", name |-> Null]
    ELSE IF PreferredDomain(OrgDomains(r)) = NoDomain
            \/ ~Truthy(PreferredDomain(OrgDomains(r)).name)
    THEN [error |-> "no_verified_domain", name |-> Null]
    ELSE [error |-> "ok", name |-> PreferredDomain(OrgDomains(r)).name]

\* A call of fetchDefaultVerifiedDomain: the memo it found on entry, the
\* organization requests it sent, the response it got, whether it assigned
\* the memo and what the memo was just before, what it returned or threw.
IdleDomainCall ==
    [seen |-> Null, orgReqs |-> 0, resp |-> NoOrgResp, wrote |-> FALSE,
     replaced |-> Null, returned |-> Null, error |-> "ok"]

\* A fetchDefaultVerifiedDomain that does not look at the memo.
FetchEnterAlways(call, memo) ==
    [call |-> [call EXCEPT !.seen = memo, !.orgReqs = @ + 1], pc |-> "await_org"]

\* Line 116 and the request of line 117: the memo is returned when it is
\* set, else GET /organization is sent.
FetchEnter(call, memo) ==
    IF Truthy(memo)
    THEN [call |-> [call EXCEPT !.seen = memo, !.returned = memo], pc |-> "done"]
    ELSE [call |-> [call EXCEPT !.seen = memo, !.orgReqs = @ + 1], pc |-> "await_org"]

\* fetchDefaultVerifiedDomain(token) is called.
FetchCall(p) ==
    /\ pc[p] = "idle"
    /\ req' = [req EXCEPT ![p] = FetchEnter(IdleDomainCall, domainMemo).call]
    /\ pc' = [pc EXCEPT ![p] = FetchEnter(IdleDomainCall, domainMemo).pc]
    /\ UNCHANGED <<dbVarsButPc, domainMemo>>

\* Graph answers GET /organization: the call throws, or assigns the chosen
\* name to the memo and returns it.
FetchAnswer(p, r) ==
    /\ pc[p] = "await_org"
    /\ IF DomainOutcome(r).error # "ok"
       THEN /\ req' = [req EXCEPT ![p].resp = r, ![p].error = DomainOutcome(r).error]
            /\ UNCHANGED domainMemo
       ELSE /\ req' = [req EXCEPT ![p].resp = r, ![p].wrote = TRUE,
                                  ![p].replaced = domainMemo,
                                  ![p].returned = DomainOutcome(r).name]
            /\ domainMemo' = DomainOutcome(r).name
    /\ pc' = [pc EXCEPT ![p] = "done"]
    /\ UNCHANGED dbVarsButPc

DomainInit ==
    /\ DbInit(Procs, {MkFullEnv(FALSE, FALSE, TRUE, TRUE, Null, FALSE)})
    /\ tableExists
    /\ req = [p \in Procs |-> IdleDomainCall]
    /\ domainMemo = Null

DomainNext ==
    \/ \E p \in Procs : FetchCall(p)
    \/ \E p \in Procs, r \in OrgResps : FetchAnswer(p, r)

SpecDomain == DomainInit /\ [][DomainNext]_vars

\* C21: the verified-domain memo is assigned at most once in a process, also
\* when several calls reach fetchDefaultVerifiedDomain before the first fetch
\* has resolved, and no assignment replaces a name by a different one.
C21_MemoWrittenAtMostOnce ==
    /\ Cardinality({ p \in Procs : req[p].wrote }) <= 1
    /\ \A p \in Procs :
          req[p].wrote => (req[p].replaced = Null \/ req[p].replaced = req[p].returned)

\* The positions of the domains the selection prefers: those flagged
\* isDefault if there are any, else those flagged isInitial, else those
\* flagged isVerified.
PreferredClass(domains) ==
    LET flagged(flag) == { i \in 1..Len(domains) : domains[i][flag] }
    IN IF flagged("isDefault") # {} THEN flagged("isDefault")
       ELSE IF flagged("isInitial") # {} THEN flagged("isInitial")
       ELSE flagged("isVerified")

\* The call of p got a successful, readable organization response.
GotOrganization(p) ==
    pc[p] = "done" /\ req[p].resp.fetch = "ok" /\ req[p].resp.json = "object"

\* C22: on a successful organization response fetchDefaultVerifiedDomain
\* returns the name of the (first) domain flagged isDefault if there is one,
\* else of the one flagged isInitial, else of one flagged isVerified; it fails,
\* with no domain chosen or memoized, exactly when there is no such domain or
\* the chosen one has no name.
C22_PrefersDefaultInitialVerified ==
    \A p \in Procs :
        GotOrganization(p) =>
            LET domains == OrgDomains(req[p].resp)
                class == PreferredClass(domains)
                first == CHOOSE i \in class : \A j \in class : i <= j
            IN IF class = {} \/ ~Truthy(domains[first].name)
               THEN /\ req[p].error = "no_verified_domain"
                    /\ req[p].returned = Null
                    /\ ~req[p].wrote
               ELSE /\ req[p].error = "ok"
                    /\ req[p].returned = domains[first].name
                    /\ domains[first].isDefault
                         \/ (\A i \in 1..Len(domains) : ~domains[i].isDefault)

\* One call got a tenant whose default domain is listed after its initial one
\* and returned the default; another got a tenant whose default domain has no
\* name and failed.
C22_Witness ==
    \E p, q \in Procs :
        /\ GotOrganization(p) /\ Len(OrgDomains(req[p].resp)) = 3
        /\ req[p].returned = TenantDomain
        /\ GotOrganization(q) /\ Len(OrgDomains(req[q].resp)) = 2
        /\ OrgDomains(req[q].resp)[1].name = Null
        /\ req[q].error = "no_verified_domain"

\* C27: the memo is assigned only by a call whose organization response was
\* successful and yielded a named preferred domain; a call that fails leaves
\* the memo as it was, so the memo is set only to a name some call fetched; a
\* call that finds the memo null sends the organization request, and a call
\* that finds it set returns it without any request.
C27_MemoOnlyAfterSuccess ==
    /\ [](/\ \A p \in Procs :
               /\ req[p].wrote =>
                    /\ req[p].error = "ok"
                    /\ req[p].resp.fetch = "ok"
                    /\ Truthy(req[p].returned)
               /\ req[p].error # "ok" => ~req[p].wrote
               /\ (pc[p] # "idle" /\ ~Truthy(req[p].seen)) => req[p].orgReqs = 1
               /\ Truthy(req[p].seen) =>
                    /\ pc[p] = "done"
                    /\ req[p].orgReqs = 0
                    /\ req[p].error = "ok"
                    /\ req[p].returned = req[p].seen
          /\ IF \E p \in Procs : req[p].wrote
             THEN \E p \in Procs : req[p].wrote /\ req[p].returned = domainMemo
             ELSE domainMemo = Null)
    /\ [][\A p \in Procs :
            (pc[p] = "await_org" /\ pc'[p] = "done") =>
                IF req'[p].error # "ok" THEN domainMemo' = domainMemo
                ELSE domainMemo' = req'[p].returned]_vars

\* A call failed on a non-success status and cached nothing: the next call
\* found the memo null, fetched again and memoized the name it got.
C27_Witness ==
    \E p, q \in Procs :
        /\ pc[p] = "done" /\ req[p].error = "domain_status" /\ ~req[p].wrote
        /\ pc[q] = "done" /\ req[q].seen = Null /\ req[q].orgReqs = 1 /\ req[q].wrote
        /\ domainMemo = req[q].returned
        /\ Truthy(domainMemo)

\* A call made after the name was memoized returned it without a request.
C27_MemoReused ==
    \E p, q \in Procs :
        /\ req[p].wrote
        /\ pc[q] = "done" /\ req[q].seen = req[p].returned /\ req[q].orgReqs = 0
        /\ req[q].returned = domainMemo

\* Every stored row was created no later than it was last updated.
CreatedBeforeUpdated(t) == \A r \in t : r.CreatedAt <= r.UpdatedAt

\* The write of a call that found a row for its userId adds and removes no
\* row, leaves Id and CreatedAt of the user's rows as they were and sets their
\* UpdatedAt to the call's timestamp; the write of a call that found none adds
\* one row for the user whose CreatedAt and UpdatedAt are the call's timestamp.
WriteKeepsIdAndCreatedAt(p) ==
    (pc[p] = "upsert_write" /\ pc'[p] = "returned") =>
        IF found[p]
        THEN /\ { r.Id : r \in table' } = { r.Id : r \in table }
             /\ Cardinality(table') = Cardinality(table)
             /\ \A r \in RowsOf(table, form[p].userId) :
                  \E r2 \in RowsOf(table', form[p].userId) :
                     /\ r2.Id = r.Id
                     /\ r2.CreatedAt = r.CreatedAt
                     /\ r2.UpdatedAt = now[p]
        ELSE \E r \in table' \ table :
                /\ table' = table \cup {r}
                /\ r.UserId = form[p].userId
                /\ r.CreatedAt = now[p]
                /\ r.UpdatedAt = now[p]

\* C26: an upsertIntakeForm call that finds a row for the userId leaves the
\* row's Id and CreatedAt unchanged and sets UpdatedAt to the call's
\* timestamp, a call that inserts sets CreatedAt equal to UpdatedAt, and, the
\* clock the calls read never going back, no stored row has a CreatedAt later
\* than its UpdatedAt.
C26_CreatedNeverAfterUpdated ==
    /\ [][\A p \in Procs : WriteKeepsIdAndCreatedAt(p)]_vars
    /\ [][clock' >= clock]_vars
    /\ []CreatedBeforeUpdated(table)

\* The effect of each write taken alone, as C26 states it.
C26_WriteEffects == [][\A p \in Procs : WriteKeepsIdAndCreatedAt(p)]_vars

(***************************************************************************)
(* getClaimValue on its own (app.js:81-89): one call on a claims list and  *)
(* an alias list.                                                          *)
(***************************************************************************)
ClaimListMax == 3

ClaimSamples ==
    { Claim(typ, val) : typ \in {"email", "upn"},
                        val \in {Null, Empty, <<"a">>, <<"b">>} }

\* The claims lists of up to ClaimListMax entries, types repeated or not.
ClaimLists == UNION { [1..n -> ClaimSamples] : n \in 0..ClaimListMax }

AliasLists == { <<>>, <<"upn">>, <<"email", "upn">>, <<"upn", "email">> }

IdleClaimCall == [called |-> FALSE, claims |-> <<>>, claimTypes |-> <<>>, value |-> Null]

\* getClaimValue(claims, claimTypes) is called and returns.
ClaimValueCall(claims, claimTypes) ==
    /\ pc[1] = "idle"
    /\ req' = [req EXCEPT ![1] =
                 [called |-> TRUE, claims |-> claims, claimTypes |-> claimTypes,
                  value |-> getClaimValue(claims, claimTypes)]]
    /\ pc' = [pc EXCEPT ![1] = "done"]
    /\ UNCHANGED <<dbVarsButPc, domainMemo>>

ClaimInit ==
    /\ DbInit(OneCall, {MkEnv(FALSE, FALSE, TRUE)})
    /\ tableExists
    /\ req = [p \in OneCall |-> IdleClaimCall]
    /\ domainMemo = Null

ClaimNext ==
    \E claims \in ClaimLists, claimTypes \in AliasLists :
        ClaimValueCall(claims, claimTypes)

SpecClaims == ClaimInit /\ [][ClaimNext]_vars

\* The same claims in every order.
Reorderings(claims) ==
    { [i \in 1..Len(claims) |-> claims[f[i]]] :
        f \in { g \in [1..Len(claims) -> 1..Len(claims)] :
                  \A i, j \in 1..Len(claims) : g[i] = g[j] => i = j } }

\* The positions of the aliases for which some claim has a non-empty value.
AliasesWithValue(claims, claimTypes) ==
    { k \in 1..Len(claimTypes) :
        \E i \in 1..Len(claims) : claims[i].typ = claimTypes[k] /\ Truthy(claims[i].val) }

\* C23 (as stated): getClaimValue returns the non-empty value of a claim of
\* the earliest alias that has one, whatever the order of the claims list,
\* and null when no alias has a claim with a non-empty value.
C23_EarliestAliasWins ==
    pc[1] = "done" =>
        LET claims == req[1].claims
            claimTypes == req[1].claimTypes
            having == AliasesWithValue(claims, claimTypes)
            k == CHOOSE k \in having : \A m \in having : k <= m
        IN /\ IF having = {} THEN req[1].value = Null
              ELSE \E i \in 1..Len(claims) :
                      /\ claims[i].typ = claimTypes[k]
                      /\ Truthy(claims[i].val)
                      /\ req[1].value = claims[i].val
           /\ \A other \in Reorderings(claims) :
                 getClaimValue(other, claimTypes) = req[1].value

\* The position of the first claim of the type, 0 when there is none.
FirstOfType(claims, typ) ==
    LET hits == { i \in 1..Len(claims) : claims[i].typ = typ }
    IN IF hits = {} THEN 0 ELSE CHOOSE i \in hits : \A j \in hits : i <= j

\* The positions of the aliases whose first claim has a non-empty value.
AliasesWithFirstValue(claims, claimTypes) ==
    { k \in 1..Len(claimTypes) :
        /\ FirstOfType(claims, claimTypes[k]) # 0
        /\ Truthy(claims[FirstOfType(claims, claimTypes[k])].val) }

\* No two claims of the list have the same type.
DistinctTypes(claims) ==
    \A i, j \in 1..Len(claims) : claims[i].typ = claims[j].typ => i = j

\* C23 (amended): getClaimValue looks, per alias, at the first claim of that
\* type in the list only; it returns the value of that claim for the earliest
\* alias where it is non-empty, and null when there is no such alias. The
\* result does not depend on the order of the claims when no type occurs
\* twice in the list.
C23_EarliestAliasFirstClaimWins ==
    pc[1] = "done" =>
        LET claims == req[1].claims
            claimTypes == req[1].claimTypes
            having == AliasesWithFirstValue(claims, claimTypes)
            k == CHOOSE k \in having : \A m \in having : k <= m
        IN /\ IF having = {} THEN req[1].value = Null
              ELSE req[1].value = claims[FirstOfType(claims, claimTypes[k])].val
           /\ DistinctTypes(claims) =>
                 \A other \in Reorderings(claims) :
                    getClaimValue(other, claimTypes) = req[1].value

\* The first alias has a claim without a value and is skipped for the second
\* alias, whose claim comes earlier in the list.
C23_Witness ==
    /\ pc[1] = "done"
    /\ req[1].claimTypes = <<"email", "upn">>
    /\ req[1].claims = <<Claim("upn", <<"b">>), Claim("email", Empty)>>
    /\ req[1].value = <<"b">>

\* The first claim of the alias has no value and hides a later claim of the
\* same type that has one.
C23_DuplicateHidden ==
    /\ pc[1] = "done"
    /\ req[1].claimTypes = <<"upn">>
    /\ req[1].claims = <<Claim("upn", Empty), Claim("upn", <<"a">>)>>
    /\ req[1].value = Null

\* ---------------------------------------------------------------------------
\* The order of validation and token acquisition in
\* inviteExternalUserToEfmod.

\* C28: a call of inviteExternalUserToEfmod whose email is empty or has no
\* '@' sends no request at all, neither to the token endpoint nor to the
\* invitations endpoint, and when it has settled its error is the email
\* validation error, whatever the EFSMOD configuration and whatever the
\* token endpoint answers.
C28_ValidatesBeforeAnyRequest ==
    \A p \in Procs :
        (req[p].fn = "invite" /\ InvalidInviteEmail(req[p].intake)) =>
            /\ req[p].tokenReqs = 0
            /\ req[p].inviteReqs = 0
            /\ pc[p] = "done" => req[p].error = "invalid_email"

\* What does hold of such a call: the invitations endpoint is never
\* addressed, the call fails, and the validation error is raised exactly
\* when the configuration is complete and the token endpoint gave a token.
C28_ValidatesAfterToken ==
    \A p \in Procs :
        (req[p].fn = "invite" /\ InvalidInviteEmail(req[p].intake)) =>
            /\ req[p].inviteReqs = 0
            /\ req[p].tokenReqs = (IF getEfmodConfig(env).ok THEN 1 ELSE 0)
            /\ pc[p] = "done" =>
                  /\ req[p].kind = "error"
                  /\ req[p].error = "invalid_email" <=>
                        (getEfmodConfig(env).ok /\ req[p].tokenAnswer = "ok")

\* ---------------------------------------------------------------------------
\* The 'error' listener of getPool and the pool it acts on.

\* C24: whenever the 'error' listener of a pool object has run, the module
\* pool it found was non-null and was that very pool object, so close() was
\* called on the emitting pool only: no listener threw, and every closed pool
\* is one that emitted 'error'.
C24_HandlerClosesItsOwnPool ==
    \A i \in 1..Len(conns) :
        /\ conns[i].emitted => (conns[i].found = i /\ ~conns[i].handlerThrew)
        /\ conns[i].closed => conns[i].emitted

\* One pool emitted 'error' twice: its listener found the module pool null
\* the second time and threw on pool.close().
C24_SecondErrorThrows ==
    \E i \in 1..Len(conns) :
        conns[i].closed /\ conns[i].handlerThrew /\ conns[i].found = NoPool

\* An old pool emitted 'error' after a newer pool had replaced it: the
\* listener closed and discarded the newer pool, which has emitted nothing.
C24_OldPoolClosesNewer ==
    \E i, j \in 1..Len(conns) :
        /\ i < j
        /\ conns[i].emitted /\ conns[i].found = j
        /\ conns[j].closed /\ ~conns[j].emitted
        /\ pool = NoPool

\* The calls that have returned a pool after finding no connected pool, while
\* no pool object has emitted 'error' yet: they all started before any
\* connection was established.
ConcurrentStarters ==
    IF \E i \in 1..Len(conns) : conns[i].emitted THEN {}
    ELSE { p \in Procs : pc[p] = "done" /\ req[p].error = "ok" /\ ~req[p].seenConnected }

\* C25: getPool calls that start while no connected pool exists open at most
\* one connection between them, that pool has exactly one 'error' listener,
\* and all of them return the same pool object.
C25_ConcurrentCallsShareOneConnection ==
    ConcurrentStarters # {} =>
        /\ Len(conns) <= 1
        /\ \A i \in 1..Len(conns) : conns[i].handlers = 1
        /\ \A p, q \in ConcurrentStarters : req[p].returned = req[q].returned

\* What holds of such calls: each opens a connection of its own and returns
\* the pool it opened, with one listener on each pool object.
C25_EachCallOpensItsOwn ==
    /\ Len(conns) = Cardinality(ConcurrentStarters) \/ ConcurrentStarters = {}
    /\ \A i \in 1..Len(conns) : conns[i].handlers = 1
    /\ \A p, q \in ConcurrentStarters : p # q => req[p].returned # req[q].returned

(***************************************************************************)
(* ProfileManager.handleFormSubmit (public/js/profile.js:161-254): each    *)
(* caller is a browser page with its own intake form; req holds the page's *)
(* submit button and EFSMOD slot and the handler's locals.                 *)
(***************************************************************************)
\* A page before the submission: whether #intake-form exists, whether it has
\* a submit button, the button's disabled flag, the content of the
\* #efsmode-deeplink slot ("absent" when the element does not exist), the
\* notifications shown, and the path the handler took.
MkSubmitPage(hasForm, submitBtn, disabled, slot) ==
    [form |-> hasForm, submitBtn |-> submitBtn, disabled |-> disabled,
     before |-> disabled, prevDisabled |-> FALSE, slot |-> slot,
     successes |-> 0, errors |-> 0, path |-> "none"]

SubmitPages ==
    { MkSubmitPage(TRUE, TRUE, d, s) : d \in BOOLEAN, s \in {"absent", "empty"} }
    \cup { MkSubmitPage(TRUE, FALSE, FALSE, "absent"),
           MkSubmitPage(FALSE, FALSE, FALSE, "absent") }

\* What POST /api/intake brings: fetch rejects, or resolves with a status
\* that is ok or not, and a body whose accountCreation and efsmodeInvite
\* members are of one of the kinds the handler distinguishes.
MkSubmitResp(fetch, accountCreation, efsmodeInvite) ==
    [fetch |-> fetch, accountCreation |-> accountCreation,
     efsmodeInvite |-> efsmodeInvite]

SubmitResps ==
    { MkSubmitResp("throws", "none", "none"), MkSubmitResp("not_ok", "none", "none") }
    \cup { MkSubmitResp("ok", a, i) :
             a \in {"none", "created", "invited", "invited_url", "error"},
             i \in {"none", "link", "error"} }

\* The success and error notifications of lines 203-239 for a response body.
SuccessesOf(r) ==
    1 + (CASE r.accountCreation = "created" -> 1
           [] r.accountCreation = "invited" -> 1
           [] r.accountCreation = "invited_url" -> 2
           [] OTHER -> 0)

ErrorsOf(r) ==
    (IF r.accountCreation = "error" THEN 1 ELSE 0)
    + (IF r.efsmodeInvite = "error" THEN 1 ELSE 0)

\* handleFormSubmit up to its await of fetch (lines 161-193): without a form
\* it returns; else it remembers the button's disabled flag, disables the
\* button, renders the loader and sends the request.
SubmitForm(p) ==
    /\ pc[p] = "idle"
    /\ IF ~req[p].form
       THEN /\ req' = [req EXCEPT ![p].path = "no_form"]
            /\ pc' = [pc EXCEPT ![p] = "done"]
       ELSE /\ req' = [req EXCEPT
                         ![p].prevDisabled = (IF req[p].submitBtn THEN req[p].disabled
                                              ELSE FALSE),
                         ![p].disabled = (IF req[p].submitBtn THEN TRUE ELSE @),
                         ![p].slot = "loading"]
            /\ pc' = [pc EXCEPT ![p] = "await_intake"]
    /\ UNCHANGED <<dbVarsButPc, domainMemo>>

\* fetch settles (lines 194-253). A non-success status shows the error and
\* returns from inside the try block; a success shows the notifications and
\* the link; a rejection shows an error and clears the slot. The last two
\* go on to restore the button's disabled flag.
SubmitAnswer(p, r) ==
    /\ pc[p] = "await_intake"
    /\ req' = [req EXCEPT ![p] =
                 IF r.fetch = "not_ok"
                 THEN [@ EXCEPT !.errors = @ + 1, !.path = "not_ok"]
                 ELSE IF r.fetch = "ok"
                 THEN [@ EXCEPT !.successes = @ + SuccessesOf(r),
                                !.errors = @ + ErrorsOf(r),
                                !.slot = "link",
                                !.disabled = (IF req[p].submitBtn THEN req[p].prevDisabled
                                              ELSE @),
                                !.path = "ok"]
                 ELSE [@ EXCEPT !.errors = @ + 1,
                                !.slot = "empty",
                                !.disabled = (IF req[p].submitBtn THEN req[p].prevDisabled
                                              ELSE @),
                                !.path = "threw"]]
    /\ pc' = [pc EXCEPT ![p] = "done"]
    /\ UNCHANGED <<dbVarsButPc, domainMemo>>

SubmitInit ==
    /\ DbInit(Procs, {MkEnv(FALSE, FALSE, TRUE)})
    /\ tableExists
    /\ req \in [Procs -> SubmitPages]
    /\ domainMemo = Null

SubmitNext ==
    \/ \E p \in Procs : SubmitForm(p)
    \/ \E p \in Procs, r \in SubmitResps : SubmitAnswer(p, r)

SpecSubmit == SubmitInit /\ [][SubmitNext]_vars

\* C29: when handleFormSubmit has finished, on whichever path, the submit
\* button's disabled flag is what it was before the submission started.
C29_ButtonRestoredOnEveryPath ==
    \A p \in Procs : pc[p] = "done" => req[p].disabled = req[p].before

\* What holds: the flag is restored after a successful response and after a
\* rejected fetch, and after a non-success response a button is left
\* disabled with the loader still in the slot.
C29_ButtonRestoredUnlessNotOk ==
    \A p \in Procs :
        pc[p] = "done" =>
            /\ req[p].path # "not_ok" => req[p].disabled = req[p].before
            /\ (req[p].path = "not_ok" /\ req[p].submitBtn) =>
                  (req[p].disabled /\ req[p].slot = "loading")

\* An enabled button is left disabled after a non-success response.
C29_ButtonStuck ==
    \E p \in Procs :
        /\ pc[p] = "done" /\ req[p].path = "not_ok"
        /\ ~req[p].before /\ req[p].disabled

(***************************************************************************)
(* The profile dropdown of FLWINSApp (public/js/flwins-main.js): the page  *)
(* schedules setupAuthentication twice while loading and exposes it as     *)
(* refreshAuth/checkAuth; each run that finds a user sets the dropdown up. *)
(***************************************************************************)
\* Calls of window.refreshAuth / window.checkAuth, and clicks, in one run.
MaxRefresh == 1
MaxClicks == 2

\* A page before DOMContentLoaded: whether #profile-btn and #profile-menu
\* exist, the pending timers, the setupAuthentication runs awaiting
\* /.auth/me and /api/auth/status, the click listeners on the profile button
\* and on the document, whether the authenticated actions are shown, the
\* button's aria-expanded state, and of the last click on the button the
\* state before it and the number of times it flipped the state.
MkDropdownPage(profileBtn) ==
    [profileBtn |-> profileBtn, initTimer |-> FALSE, loadTimer |-> FALSE,
     refreshes |-> 0, awaitMe |-> 0, awaitStatus |-> 0, runs |-> 0,
     btnListeners |-> 0, docListeners |-> 0, shown |-> FALSE,
     expanded |-> FALSE, clicks |-> 0, before |-> FALSE, flips |-> 0]

\* setupProfileDropdown (lines 639-666): without the button or the menu it
\* returns; else it adds one more click listener to the button and one more
\* to the document.
setupProfileDropdown(page) ==
    IF ~page.profileBtn THEN page
    ELSE [page EXCEPT !.btnListeners = @ + 1, !.docListeners = @ + 1]

\* handleAuthenticatedUser (lines 589-620) and handleAnonymousUser
\* (lines 622-637).
handleAuthenticatedUser(page) ==
    setupProfileDropdown([page EXCEPT !.shown = TRUE, !.runs = @ + 1])

handleAnonymousUser(page) == [page EXCEPT !.shown = FALSE, !.runs = @ + 1]

\* The DOMContentLoaded handler (lines 725-749) constructs the app, whose
\* init (lines 11-20) sets the 100 ms timer, and sets the 500 ms timer.
PageLoaded(p) ==
    /\ pc[p] = "idle"
    /\ req' = [req EXCEPT ![p].initTimer = TRUE, ![p].loadTimer = TRUE]
    /\ pc' = [pc EXCEPT ![p] = "ready"]
    /\ UNCHANGED <<dbVarsButPc, domainMemo>>

\* The 100 ms timer of init fires: setupAuthentication sends GET /.auth/me.
InitTimer(p) ==
    /\ pc[p] = "ready"
    /\ req[p].initTimer
    /\ req' = [req EXCEPT ![p].initTimer = FALSE, ![p].awaitMe = @ + 1]
    /\ UNCHANGED <<dbVars, domainMemo>>

\* The 500 ms timer of the DOMContentLoaded handler fires.
LoadTimer(p) ==
    /\ pc[p] = "ready"
    /\ req[p].loadTimer
    /\ req' = [req EXCEPT ![p].loadTimer = FALSE, ![p].awaitMe = @ + 1]
    /\ UNCHANGED <<dbVars, domainMemo>>

\* window.refreshAuth() or window.checkAuth() is called (lines 735-736,
\* 669-672).
RefreshAuth(p) ==
    /\ pc[p] = "ready"
    /\ req[p].refreshes < MaxRefresh
    /\ req' = [req EXCEPT ![p].refreshes = @ + 1, ![p].awaitMe = @ + 1]
    /\ UNCHANGED <<dbVars, domainMemo>>

AuthAnswers == {"user", "none", "throws"}

\* GET /.auth/me settles for one run (lines 493-517, 539-545): a user is
\* handled; a rejection makes the page anonymous; else /api/auth/status is
\* asked.
AuthMeAnswer(p, r) ==
    /\ req[p].awaitMe > 0
    /\ LET page == [req[p] EXCEPT !.awaitMe = @ - 1]
       IN req' = [req EXCEPT ![p] =
                    IF r = "user" THEN handleAuthenticatedUser(page)
                    ELSE IF r = "throws" THEN handleAnonymousUser(page)
                    ELSE [page EXCEPT !.awaitStatus = @ + 1]]
    /\ UNCHANGED <<dbVars, domainMemo>>

\* GET /api/auth/status settles for one run (lines 519-545).
AuthStatusAnswer(p, r) ==
    /\ req[p].awaitStatus > 0
    /\ LET page == [req[p] EXCEPT !.awaitStatus = @ - 1]
       IN req' = [req EXCEPT ![p] =
                    IF r = "user" THEN handleAuthenticatedUser(page)
                    ELSE handleAnonymousUser(page)]
    /\ UNCHANGED <<dbVars, domainMemo>>

\* The state of aria-expanded after n listeners have each negated it
\* (lines 649-650).
Toggled(expanded, n) == IF n % 2 = 1 THEN ~expanded ELSE expanded

\* The user clicks the profile button, which is shown: every click listener
\* on the button runs and negates aria-expanded; stopPropagation keeps the
\* event from the document's listeners (lines 645-651).
ClickProfile(p) ==
    /\ req[p].profileBtn
    /\ req[p].shown
    /\ req[p].clicks < MaxClicks
    /\ req' = [req EXCEPT ![p].before = req[p].expanded,
                          ![p].expanded = Toggled(@, req[p].btnListeners),
                          ![p].flips = req[p].btnListeners,
                          ![p].clicks = @ + 1]
    /\ UNCHANGED <<dbVars, domainMemo>>

\* The user clicks outside the button and the menu, or presses Escape: the
\* document's listeners close the dropdown (lines 653-665).
ClickOutside(p) ==
    /\ req[p].docListeners > 0
    /\ req[p].expanded
    /\ req' = [req EXCEPT ![p].expanded = FALSE]
    /\ UNCHANGED <<dbVars, domainMemo>>

DropdownInit ==
    /\ DbInit(OneCall, {MkEnv(FALSE, FALSE, TRUE)})
    /\ tableExists
    /\ req \in [OneCall -> {MkDropdownPage(TRUE), MkDropdownPage(FALSE)}]
    /\ domainMemo = Null

DropdownNext ==
    \/ \E p \in OneCall : PageLoaded(p)
    \/ \E p \in OneCall : InitTimer(p)
    \/ \E p \in OneCall : LoadTimer(p)
    \/ \E p \in OneCall : RefreshAuth(p)
    \/ \E p \in OneCall, r \in AuthAnswers : AuthMeAnswer(p, r)
    \/ \E p \in OneCall, r \in AuthAnswers : AuthStatusAnswer(p, r)
    \/ \E p \in OneCall : ClickProfile(p)
    \/ \E p \in OneCall : ClickOutside(p)

SpecDropdown == DropdownInit /\ [][DropdownNext]_vars

\* C30: once the page is set up for an authenticated user, however many
\* times setupAuthentication has run, a click on the profile button flips
\* aria-expanded exactly once: the state after the click is the negation of
\* the state before it.
C30_ClickFlipsOnce ==
    \A p \in OneCall :
        req[p].clicks > 0 => req[p].flips = 1

\* What holds: a click flips the state once for every setupAuthentication
\* run that has found a user, so the state changes exactly when that number
\* is odd.
C30_ClickFlipsOncePerSetup ==
    /\ \A p \in OneCall :
         /\ req[p].btnListeners <= req[p].runs
         /\ req[p].btnListeners = req[p].docListeners
         /\ req[p].clicks > 0 => req[p].flips \in 1..req[p].btnListeners
    /\ [][\A p \in OneCall :
            req'[p].clicks # req[p].clicks =>
               /\ req'[p].flips = req[p].btnListeners
               /\ req'[p].expanded = Toggled(req[p].expanded, req[p].btnListeners)]_vars

\* Both timers of the page load have run for an authenticated user, nothing
\* else has: the click ran two listeners and left aria-expanded as it was.
C30_LoadAloneBreaksToggle ==
    \E p \in OneCall :
        /\ req[p].runs = 2 /\ req[p].refreshes = 0
        /\ req[p].clicks = 1 /\ req[p].flips = 2
        /\ req[p].expanded = req[p].before

====
